---- MODULE Spec2Model ----
(***************************************************************************)
(* A model of the circuit synthesis core of vamp-ir: the halo2 backend     *)
(* (src/src/halo2/synth.rs, "Backend A") and the plonk backend             *)
(* (src/src/plonk/synth.rs, "Backend B").                                  *)
(*                                                                         *)
(* The prime field is scaled down to the integers modulo P: field         *)
(* elements are 0..P-1.  The 64-byte buffer of halo2's make_constant (512  *)
(* bits, about twice the width of the 255-bit modulus) is scaled with it   *)
(* to WideBits bits.  An unknown halo2 Value is the marker Unknown.        *)
(***************************************************************************)
EXTENDS Integers, Sequences, FiniteSets, TLC

VARIABLES
    blobs,          \* the circuit encodings written so far, in order
    decoded,        \* the result of the last decode
    cli,            \* the command in progress: its arguments, steps and exit
    cells,          \* halo2 synthesis: the VariableId -> Cell map
    copies,         \* halo2 synthesis: the copy constraints added so far
    inputs,         \* populate_variables: the program inputs it was handed
    backend,        \* "halo2" or "plonk": which circuit module is modelled
    module,         \* the Module: [pubs, defs, exprs]
    variable_map,   \* the circuit module's witness map: VariableId -> value
    k,              \* Halo2Module.k
    pc,             \* the position of the operation in progress
    definitions,    \* populate_variables: the local definition map
    field_assigns,  \* populate_variables: the assignment map (inputs + memo)
    todo,           \* populate_variables: witness entries not yet visited
    idx,            \* synthesis: index of the next entry of module.exprs
    gates,          \* synthesis: the rows emitted so far, in order
    err,            \* the fatal error that stopped the operation, if any
    arg,            \* PrimeFieldOps call: the argument
    result          \* PrimeFieldOps call: the returned integer

vars == <<blobs, decoded, cli, cells, copies,
          inputs, backend, module, variable_map, k, pc, definitions, field_assigns,
          todo, idx, gates, err, arg, result>>

-----------------------------------------------------------------------------
(* Bounds and scaled program constants *)

\* The field modulus (pasta Fp in the halo2 backend), scaled down.
P == 5
\* Width in bits of the buffer make_constant reads (64 bytes), scaled down.
WideBits == 6
\* Halo2Module::new: const ROW_PADDING: usize = 8
ROW_PADDING == 8
\* Width in bits of one limb of BigInt::to_u64_digits (64), scaled down.
LimbBits == 1
\* Number of limbs FieldExt::pow takes: &[u64; 4]
PowLimbs == 4
\* Width in bits of one byte of PrimeField::Repr (8), scaled down, and the
\* number of bytes of a Repr (32), scaled down.
ByteBits == 2
ReprLen == 2
\* Width in bits of one digit of BigUint::to_u32_digits (32), scaled down.
DigitBits == 2

\* Largest number of constraints of a module handed to new().
MaxNewExprs == 260
\* Largest magnitude of an integer handed to PrimeFieldOps.
MaxInt == 70
\* Largest magnitude of a small constant appearing in a constraint.
MaxConst == 1
\* Largest field value given as a program input.
MaxInput == 2
\* Largest number of entries of module.exprs handed to synthesis.
MaxExprs == 3
\* Largest magnitude of a small operand handed to PrimeFieldOps::infix.
MaxOperand == 16
\* Largest number of times one module is encoded.
MaxEncodes == 2
\* Largest number of public variables of a module.
MaxPubs == 2

Backends == {"halo2", "plonk"}
VariableIds == {1, 2, 3}
Field == 0 .. (P - 1)
\* Value::unknown()
Unknown == 0 - 1
\* The absent wire of make_gate (None) and the composer's zero variable.
ZeroWire == 0
EmptyMap == [v \in {} |-> 0]
NoError == [kind |-> "none"]
\* nothing decoded yet; no command running
NoDecode == [st |-> "none"]
NoCommand == [cmd |-> "none"]

-----------------------------------------------------------------------------
(* Field arithmetic: the operators of the field type F *)

Abs(x) == IF x < 0 THEN 0 - x ELSE x
FAdd(x, y) == (x + y) % P
FNeg(x) == (P - x) % P
FSub(x, y) == (x + P - y) % P
FMul(x, y) == (x * y) % P
\* Field::invert / inverse: None (Unknown) for zero
FInvert(x) == IF x % P = 0 THEN Unknown
              ELSE CHOOSE y \in 1 .. (P - 1) : (x * y) % P = 1

-----------------------------------------------------------------------------
(* Expressions (crate::ast::Expr) *)

Constant(c) == [t |-> "Constant", c |-> c]
Variable(id) == [t |-> "Variable", id |-> id]
Negate(e) == [t |-> "Negate", e |-> e]
Infix(op, a, b) == [t |-> "Infix", op |-> op, a |-> a, b |-> b]

IsConstant(e) == e.t = "Constant"
IsVariable(e) == e.t = "Variable"
IsNegate(e) == e.t = "Negate"
IsInfix(e, op) == e.t = "Infix" /\ e.op = op

RECURSIVE ExprVariables(_)
ExprVariables(e) ==
    IF e.t = "Variable" THEN {e.id}
    ELSE IF e.t = "Constant" THEN {}
    ELSE IF e.t = "Negate" THEN ExprVariables(e.e)
    ELSE ExprVariables(e.a) \cup ExprVariables(e.b)

\* collect_module_variables: every VariableId appearing in the module
collect_module_variables(m) ==
    UNION {ExprVariables(m.exprs[i]) : i \in 1 .. Len(m.exprs)}
    \cup UNION {{m.defs[i][1]} \cup ExprVariables(m.defs[i][2]) : i \in 1 .. Len(m.defs)}
    \cup {m.pubs[i] : i \in 1 .. Len(m.pubs)}

-----------------------------------------------------------------------------
(* make_constant and PrimeFieldOps *)

\* halo2: the magnitude's little-endian bytes are resized to the wide buffer
\* (Vec::resize truncates a longer vector) and reduced by from_bytes_wide.
halo2_make_constant(c) ==
    LET magnitude == (Abs(c) % (2 ^ WideBits)) % P
    IN IF c > 0 THEN magnitude ELSE FNeg(magnitude)

\* plonk: F::from(BigUint) reduces the whole magnitude
plonk_make_constant(c) ==
    LET magnitude == Abs(c) % P
    IN IF c > 0 THEN magnitude ELSE FNeg(magnitude)

make_constant(b, c) ==
    IF b = "halo2" THEN halo2_make_constant(c) ELSE plonk_make_constant(c)

\* PrimeFieldOps::canonical
canonical(b, a) == make_constant(b, a)
\* PrimeFieldOps::negate
negate(b, a) == FNeg(make_constant(b, a))

-----------------------------------------------------------------------------
(* Halo2Module::new and PlonkModule::new *)

\* the loop `while circuit_size > 0 { circuit_size >>= 1; k += 1; }`
RECURSIVE NewLoop(_, _)
NewLoop(circuit_size, kk) ==
    IF circuit_size > 0 THEN NewLoop(circuit_size \div 2, kk + 1) ELSE kk

Halo2New ==
    /\ pc = "start"
    /\ backend = "halo2"
    /\ variable_map' = [v \in collect_module_variables(module) |-> Unknown]
    /\ k' = NewLoop(Len(module.exprs) + ROW_PADDING, 0)
    /\ pc' = "constructed"
    /\ UNCHANGED <<blobs, decoded, cli, cells, copies,
                   inputs, backend, module, definitions, field_assigns, todo, idx,
                   gates, err, arg, result>>

\* PlonkModule has no k; every witness starts as F::default()
PlonkNew ==
    /\ pc = "start"
    /\ backend = "plonk"
    /\ variable_map' = [v \in collect_module_variables(module) |-> 0]
    /\ pc' = "constructed"
    /\ UNCHANGED <<blobs, decoded, cli, cells, copies,
                   inputs, backend, module, k, definitions, field_assigns, todo, idx,
                   gates, err, arg, result>>

\* a module of n constraints `v1 = 0`
TrivialModule(n) ==
    [pubs |-> <<>>, defs |-> <<>>,
     exprs |-> [i \in 1 .. n |-> Infix("Equal", Variable(1), Constant(0))]]

InitNew ==
    /\ blobs = <<>>
    /\ decoded = NoDecode
    /\ cli = NoCommand
    /\ cells = EmptyMap
    /\ copies = {}
    /\ inputs = EmptyMap
    /\ backend \in Backends
    /\ module \in {TrivialModule(n) : n \in 0 .. MaxNewExprs}
    /\ variable_map = EmptyMap
    /\ k = 0
    /\ pc = "start"
    /\ definitions = EmptyMap
    /\ field_assigns = EmptyMap
    /\ todo = {}
    /\ idx = 0
    /\ gates = <<>>
    /\ err = NoError
    /\ arg = 0
    /\ result = 0

NextNew == Halo2New \/ PlonkNew

SpecNew == InitNew /\ [][NextNew]_vars

-----------------------------------------------------------------------------
(* PrimeFieldOps calls *)

CallCanonical ==
    /\ pc = "call"
    /\ result' = canonical(backend, arg)
    /\ pc' = "canonical"
    /\ UNCHANGED <<blobs, decoded, cli, cells, copies,
                   inputs, backend, module, variable_map, k, definitions,
                   field_assigns, todo, idx, gates, err, arg>>

CallNegate ==
    /\ pc = "call"
    /\ result' = negate(backend, arg)
    /\ pc' = "negate"
    /\ UNCHANGED <<blobs, decoded, cli, cells, copies,
                   inputs, backend, module, variable_map, k, definitions,
                   field_assigns, todo, idx, gates, err, arg>>

CallMakeConstant ==
    /\ pc = "call"
    /\ result' = make_constant(backend, arg)
    /\ pc' = "make_constant"
    /\ UNCHANGED <<blobs, decoded, cli, cells, copies,
                   inputs, backend, module, variable_map, k, definitions,
                   field_assigns, todo, idx, gates, err, arg>>

InitField ==
    /\ blobs = <<>>
    /\ decoded = NoDecode
    /\ cli = NoCommand
    /\ cells = EmptyMap
    /\ copies = {}
    /\ inputs = EmptyMap
    /\ backend \in Backends
    /\ arg \in (0 - MaxInt) .. MaxInt
    /\ module = TrivialModule(0)
    /\ variable_map = EmptyMap
    /\ k = 0
    /\ pc = "call"
    /\ definitions = EmptyMap
    /\ field_assigns = EmptyMap
    /\ todo = {}
    /\ idx = 0
    /\ gates = <<>>
    /\ err = NoError
    /\ result = 0

NextField == CallCanonical \/ CallNegate \/ CallMakeConstant

SpecField == InitField /\ [][NextField]_vars

-----------------------------------------------------------------------------
(* Rows of the constraint system *)

\* the witness value a wire carries: 0 for the absent wire / zero variable
WireValue(vm, w) == IF w = ZeroWire THEN 0 ELSE vm[w]

\* One row (a, b, c, q_l, q_r, q_o, q_m, q_c): the wires are VariableIds (or
\* ZeroWire), va/vb/vc the values assigned to them, pi the public input.
Row(vm, a, b, c, q_l, q_r, q_o, q_m, q_c, pi) ==
    [st |-> "gate", a |-> a, b |-> b, c |-> c,
     va |-> WireValue(vm, a), vb |-> WireValue(vm, b), vc |-> WireValue(vm, c),
     q_l |-> q_l, q_r |-> q_r, q_o |-> q_o, q_m |-> q_m, q_c |-> q_c,
     pi |-> pi]

\* the `_ => panic!("unsupported constraint encountered: {}", expr)` arm
\* (faulty variant: the default arm lets the entry through)
UnsupportedAsGate == Row(EmptyMap, ZeroWire, ZeroWire, ZeroWire, 0, 0, 0, 0, 0, 0)
Unsupported == [st |-> "unsupported"]
\* `.invert().unwrap()` on zero (halo2), `/` by zero (plonk)
DivisionPanic == [st |-> "division by zero"]

\* The polynomial of configure's "Combined add-mult" gate (halo2) and of the
\* composer's arithmetic gate (plonk, where pi is added), on a row's values.
GatePoly(g) ==
    (g.va * g.q_l + g.vb * g.q_r + g.va * g.vb * g.q_m + g.vc * g.q_o
        + g.q_c + g.pi) % P

-----------------------------------------------------------------------------
(* Backend A: Halo2Module::make_gate and the arms of synthesize *)

\* make_gate: the row raw_poly assigns, wires a, b, c read from variable_map
\* (faulty variant: a wire whose witness is zero is routed to the zero cell)
make_gate_zero_routed(vm, a, b, c, sl, sr, so, sm, sc) ==
    Row(vm, IF WireValue(vm, a) = 0 THEN ZeroWire ELSE a,
            IF WireValue(vm, b) = 0 THEN ZeroWire ELSE b,
            IF WireValue(vm, c) = 0 THEN ZeroWire ELSE c, sl, sr, so, sm, sc, 0)
make_gate(vm, a, b, c, sl, sr, so, sm, sc) ==
    Row(vm, a, b, c, sl, sr, so, sm, sc, 0)

\* the cell of a row's advice column: raw_poly returns (lhs, rhs, out)
Cell(row, column) == <<row, column>>
\* cell0: the b cell of the first row of synthesize
cell0 == Cell(1, "b")

\* copy_variable: a vacant entry records the cell; an occupied one adds a copy
\* constraint from the cell to the recorded one
\* (faulty variant: the entry is overwritten with the newest cell)
copy_variable_overwrite(st, var, cell) ==
    [cells |-> [x \in DOMAIN st.cells \cup {var} |->
                   IF x = var THEN cell ELSE st.cells[x]],
     copies |-> IF var \in DOMAIN st.cells
                THEN st.copies \cup {<<cell, st.cells[var]>>} ELSE st.copies]
copy_variable(st, var, cell) ==
    IF var \notin DOMAIN st.cells
    THEN [cells |-> [x \in DOMAIN st.cells \cup {var} |->
                        IF x = var THEN cell ELSE st.cells[x]],
          copies |-> st.copies]
    ELSE [cells |-> st.cells,
          copies |-> st.copies \cup {<<cell, st.cells[var]>>}]

\* make_gate after raw_poly: one wire, then the three wires in the order a, b, c;
\* an absent wire is copied to cell0
\* (faulty variant: an unused wire is left unconstrained)
make_gate_wire_unconstrained(st, w, cell) ==
    IF w # ZeroWire THEN copy_variable(st, w, cell)
    ELSE [cells |-> st.cells, copies |-> st.copies]
make_gate_wire(st, w, cell) ==
    IF w # ZeroWire THEN copy_variable(st, w, cell)
    ELSE [cells |-> st.cells, copies |-> st.copies \cup {<<cell, cell0>>}]
make_gate_copies(cs, cp, row, g) ==
    LET s0 == [cells |-> cs, copies |-> cp]
        s1 == make_gate_wire(s0, g.a, Cell(row, "a"))
        s2 == make_gate_wire(s1, g.b, Cell(row, "b"))
    IN  make_gate_wire(s2, g.c, Cell(row, "c"))

\* which of the four leaf pairs (e2, e3) is: "cc", "vc", "cv", "vv" or "other"
\* (faulty variant: no arm for a constant followed by a variable)
LeafPairNoConstantVariable(e2, e3) ==
    IF IsConstant(e2) /\ IsConstant(e3) THEN "cc"
    ELSE IF IsVariable(e2) /\ IsConstant(e3) THEN "vc"
    ELSE IF IsVariable(e2) /\ IsVariable(e3) THEN "vv"
    ELSE "other"
LeafPair(e2, e3) ==
    IF IsConstant(e2) /\ IsConstant(e3) THEN "cc"
    ELSE IF IsVariable(e2) /\ IsConstant(e3) THEN "vc"
    ELSE IF IsConstant(e2) /\ IsVariable(e3) THEN "cv"
    ELSE IF IsVariable(e2) /\ IsVariable(e3) THEN "vv"
    ELSE "other"

\* arms with a variable on the left (lines 641-847)
halo2_variable_lhs(vm, v1, rhs) ==
    LET mc(c) == halo2_make_constant(c)
        one == 1
        zero == 0
        none == ZeroWire
    IN
    IF IsVariable(rhs) THEN          \* v1 = v2
        make_gate(vm, v1.id, rhs.id, none, one, FNeg(one), zero, zero, zero)
    ELSE IF IsConstant(rhs) THEN     \* v1 = c2
        make_gate(vm, v1.id, none, none, one, zero, zero, zero, FNeg(mc(rhs.c)))
    ELSE IF IsNegate(rhs) THEN
        IF IsConstant(rhs.e) THEN    \* v1 = -c2
            make_gate(vm, v1.id, none, none, one, zero, zero, zero, mc(rhs.e.c))
        ELSE IF IsVariable(rhs.e) THEN   \* v1 = -v2
            make_gate(vm, v1.id, rhs.e.id, none, one, one, zero, zero, zero)
        ELSE Unsupported
    ELSE IF IsInfix(rhs, "Add") THEN
        LET e2 == rhs.a
            e3 == rhs.b
            pair == LeafPair(e2, e3)
        IN
        IF pair = "cc" THEN          \* v1 = c2 + c3
            make_gate(vm, v1.id, none, none, one, one, zero, zero,
                      FSub(FNeg(mc(e2.c)), mc(e3.c)))
        ELSE IF pair = "vc" THEN     \* v1 = v2 + c3
            make_gate(vm, v1.id, e2.id, none, one, FNeg(one), zero, zero,
                      FNeg(mc(e3.c)))
        ELSE IF pair = "cv" THEN     \* v1 = c2 + v3
            make_gate(vm, v1.id, e3.id, none, one, FNeg(one), zero, zero,
                      FNeg(mc(e2.c)))
        ELSE IF pair = "vv" THEN     \* v1 = v2 + v3
            make_gate(vm, v1.id, e2.id, e3.id, one, FNeg(one), FNeg(one), zero, zero)
        ELSE Unsupported
    ELSE IF IsInfix(rhs, "Subtract") THEN
        LET e2 == rhs.a
            e3 == rhs.b
            pair == LeafPair(e2, e3)
        IN
        IF pair = "cc" THEN          \* v1 = c2 - c3
            make_gate(vm, v1.id, none, none, one, zero, zero, zero,
                      FSub(mc(e3.c), mc(e2.c)))
        ELSE IF pair = "vc" THEN     \* v1 = v2 - c3
            make_gate(vm, v1.id, e2.id, none, one, FNeg(one), zero, zero, mc(e3.c))
        ELSE IF pair = "cv" THEN     \* v1 = c2 - v3
            make_gate(vm, v1.id, e3.id, none, one, one, zero, zero, FNeg(mc(e2.c)))
        ELSE IF pair = "vv" THEN     \* v1 = v2 - v3
            make_gate(vm, v1.id, e2.id, e3.id, one, FNeg(one), one, zero, zero)
        ELSE Unsupported
    ELSE IF IsInfix(rhs, "Divide") THEN
        LET e2 == rhs.a
            e3 == rhs.b
            pair == LeafPair(e2, e3)
        IN
        IF pair = "cc" THEN          \* v1 = c2 / c3
            LET op1 == mc(e2.c)
                op2 == mc(e3.c)
            IN IF FInvert(op2) = Unknown THEN DivisionPanic
               ELSE make_gate(vm, v1.id, none, none, one, zero, zero, zero,
                              FNeg(FMul(op1, FInvert(op2))))
        ELSE IF pair = "vc" THEN     \* v1 = v2 / c3
            LET op2 == mc(e3.c)
            IN IF FInvert(op2) = Unknown THEN DivisionPanic
               ELSE make_gate(vm, v1.id, e2.id, none, one, FNeg(FInvert(op2)),
                              zero, zero, zero)
        ELSE IF pair = "cv" THEN     \* v1 = c2 / v3 ***
            make_gate(vm, v1.id, e3.id, none, zero, zero, zero, one, FNeg(mc(e2.c)))
        ELSE IF pair = "vv" THEN     \* v1 = v2 / v3 ***
            make_gate(vm, v1.id, e3.id, e2.id, zero, zero, FNeg(one), one, zero)
        ELSE Unsupported
    ELSE IF IsInfix(rhs, "Multiply") THEN
        LET e2 == rhs.a
            e3 == rhs.b
            pair == LeafPair(e2, e3)
        IN
        IF pair = "cc" THEN          \* v1 = c2 * c3
            make_gate(vm, v1.id, none, none, one, zero, zero, zero,
                      FNeg(FMul(mc(e2.c), mc(e3.c))))
        ELSE IF pair = "vc" THEN     \* v1 = v2 * c3
            make_gate(vm, v1.id, e2.id, none, one, FNeg(mc(e3.c)), zero, zero, zero)
        ELSE IF pair = "cv" THEN     \* v1 = c2 * v3
            make_gate(vm, v1.id, e3.id, none, one, FNeg(mc(e2.c)), zero, zero, zero)
        ELSE IF pair = "vv" THEN     \* v1 = v2 * v3
            make_gate(vm, e2.id, e3.id, v1.id, zero, zero, one, FNeg(one), zero)
        ELSE Unsupported
    ELSE Unsupported

\* arms with a constant on the left (lines 848-1076)
halo2_constant_lhs(vm, c1, rhs) ==
    LET mc(c) == halo2_make_constant(c)
        one == 1
        zero == 0
        none == ZeroWire
        op1 == mc(c1.c)
    IN
    IF IsVariable(rhs) THEN          \* c1 = v2
        make_gate(vm, rhs.id, none, none, one, zero, zero, zero, FNeg(op1))
    ELSE IF IsConstant(rhs) THEN     \* c1 = c2
        make_gate(vm, none, none, none, zero, zero, zero, zero, FSub(op1, mc(rhs.c)))
    ELSE IF IsNegate(rhs) THEN
        IF IsConstant(rhs.e) THEN    \* c1 = -c2
            make_gate(vm, none, none, none, zero, zero, zero, zero,
                      FAdd(op1, mc(rhs.e.c)))
        ELSE IF IsVariable(rhs.e) THEN   \* c1 = -v2
            make_gate(vm, rhs.e.id, none, none, one, zero, zero, zero, op1)
        ELSE Unsupported
    ELSE IF IsInfix(rhs, "Add") THEN
        LET e2 == rhs.a
            e3 == rhs.b
            pair == LeafPair(e2, e3)
        IN
        IF pair = "cc" THEN          \* c1 = c2 + c3
            make_gate(vm, none, none, none, zero, zero, zero, zero,
                      FSub(FSub(op1, mc(e2.c)), mc(e3.c)))
        ELSE IF pair = "vc" THEN     \* c1 = v2 + c3
            make_gate(vm, e2.id, none, none, one, zero, zero, zero,
                      FSub(mc(e3.c), op1))
        ELSE IF pair = "cv" THEN     \* c1 = c2 + v3
            make_gate(vm, e3.id, none, none, one, zero, zero, zero,
                      FSub(mc(e2.c), op1))
        ELSE IF pair = "vv" THEN     \* c1 = v2 + v3
            make_gate(vm, e2.id, e3.id, none, one, one, zero, zero, FNeg(op1))
        ELSE Unsupported
    ELSE IF IsInfix(rhs, "Subtract") THEN
        LET e2 == rhs.a
            e3 == rhs.b
            pair == LeafPair(e2, e3)
        IN
        IF pair = "cc" THEN          \* c1 = c2 - c3
            make_gate(vm, none, none, none, zero, zero, zero, zero,
                      FAdd(FSub(op1, mc(e2.c)), mc(e3.c)))
        ELSE IF pair = "vc" THEN     \* c1 = v2 - c3
            make_gate(vm, e2.id, none, none, one, zero, zero, zero,
                      FSub(FNeg(op1), mc(e3.c)))
        ELSE IF pair = "cv" THEN     \* c1 = c2 - v3
            make_gate(vm, e3.id, none, none, one, zero, zero, zero,
                      FSub(op1, mc(e2.c)))
        ELSE IF pair = "vv" THEN     \* c1 = v2 - v3
            make_gate(vm, e2.id, e3.id, none, one, FNeg(one), zero, zero, FNeg(op1))
        ELSE Unsupported
    ELSE IF IsInfix(rhs, "Divide") THEN
        LET e2 == rhs.a
            e3 == rhs.b
            pair == LeafPair(e2, e3)
        IN
        IF pair = "cc" THEN          \* c1 = c2 / c3
            make_gate(vm, none, none, none, zero, zero, zero, zero,
                      FSub(FMul(op1, mc(e3.c)), mc(e2.c)))
        ELSE IF pair = "vc" THEN     \* c1 = v2 / c3
            make_gate(vm, e2.id, none, none, one, zero, zero, zero,
                      FMul(FNeg(op1), mc(e3.c)))
        ELSE IF pair = "cv" THEN     \* c1 = c2 / v3 ***
            make_gate(vm, e3.id, none, none, op1, zero, zero, zero, FNeg(mc(e2.c)))
        ELSE IF pair = "vv" THEN     \* c1 = v2 / v3 ***
            make_gate(vm, e2.id, e3.id, none, one, FNeg(op1), zero, zero, zero)
        ELSE Unsupported
    ELSE IF IsInfix(rhs, "Multiply") THEN
        LET e2 == rhs.a
            e3 == rhs.b
            pair == LeafPair(e2, e3)
        IN
        IF pair = "cc" THEN          \* c1 = c2 * c3
            make_gate(vm, none, none, none, zero, zero, zero, zero,
                      FSub(op1, FMul(mc(e2.c), mc(e3.c))))
        ELSE IF pair = "vc" THEN     \* c1 = v2 * c3
            make_gate(vm, e2.id, none, none, mc(e3.c), zero, zero, zero, FNeg(op1))
        ELSE IF pair = "cv" THEN     \* c1 = c2 * v3
            make_gate(vm, e3.id, none, none, mc(e2.c), zero, zero, zero, FNeg(op1))
        ELSE IF pair = "vv" THEN     \* c1 = v2 * v3
            make_gate(vm, e2.id, e3.id, none, zero, zero, zero, one, FNeg(op1))
        ELSE Unsupported
    ELSE Unsupported

\* the `match (&lhs.v, &rhs.v)` of synthesize
halo2_match(vm, lhs, rhs) ==
    IF IsVariable(lhs) THEN halo2_variable_lhs(vm, lhs, rhs)
    ELSE IF IsConstant(lhs) THEN halo2_constant_lhs(vm, lhs, rhs)
    ELSE Unsupported

-----------------------------------------------------------------------------
(* Backend B: the composer's gate builder and the arms of gadget *)

\* gate.witness(w_l, w_r, Some(w_o)): a fresh gate; a selector the arm never
\* sets stays 0 (the unset q_o only ever multiplies the zero variable)
witness(vm, w_l, w_r, w_o) == Row(vm, w_l, w_r, w_o, 0, 0, 0, 0, 0, 0)
\* gate.add(q_l, q_r)
add(g, q_l, q_r) == [g EXCEPT !.q_l = q_l, !.q_r = q_r]
\* gate.mul(q_m)
mul(g, q_m) == [g EXCEPT !.q_m = q_m]
\* gate.out(q_o)
out(g, q_o) == [g EXCEPT !.q_o = q_o]
\* gate.constant(q_c)
constant(g, q_c) == [g EXCEPT !.q_c = q_c]
\* gate.pi(pi)
pi(g, p) == [g EXCEPT !.pi = p]

\* F's `/`: multiplication by the inverse, which panics for zero
FDiv(x, y) == FMul(x, FInvert(y))

\* the arms shared by `/` and `|` with a variable on the left; for `|` a zero
\* constant denominator encodes 0 instead of failing (lines 443-553)
plonk_variable_divide(vm, v1, e2, e3, safe) ==
    LET mc(c) == plonk_make_constant(c)
        one == 1
        zero == ZeroWire
        pair == LeafPair(e2, e3)
    IN
    IF pair = "cc" THEN              \* v1 = c2 / c3, v1 = c2 | c3
        LET op1 == mc(e2.c)
            op2 == mc(e3.c)
        IN IF op2 = 0 /\ ~safe THEN DivisionPanic
           ELSE constant(add(witness(vm, v1.id, zero, zero), one, 0),
                         FNeg(IF op2 = 0 THEN 0 ELSE FDiv(op1, op2)))
    ELSE IF pair = "vc" THEN         \* v1 = v2 / c3, v1 = v2 | c3
        LET op2 == mc(e3.c)
        IN IF op2 = 0 /\ ~safe THEN DivisionPanic
           ELSE add(witness(vm, v1.id, e2.id, zero), one,
                    FNeg(IF op2 = 0 THEN 0 ELSE FDiv(one, op2)))
    ELSE IF pair = "cv" THEN         \* v1 = c2 / v3 ***, v1 = c2 | v3 ***
        constant(mul(witness(vm, v1.id, e3.id, zero), one), FNeg(mc(e2.c)))
    ELSE IF pair = "vv" THEN         \* v1 = v2 / v3 ***, v1 = v2 | v3 ***
        out(mul(witness(vm, v1.id, e3.id, e2.id), one), FNeg(one))
    ELSE Unsupported

\* arms with a variable on the left (lines 305-608)
plonk_variable_lhs(vm, v1, rhs) ==
    LET mc(c) == plonk_make_constant(c)
        one == 1
        zero == ZeroWire
    IN
    IF IsVariable(rhs) THEN          \* v1 = v2
        add(witness(vm, v1.id, rhs.id, zero), one, FNeg(one))
    ELSE IF IsConstant(rhs) THEN     \* v1 = c2
        constant(add(witness(vm, v1.id, zero, zero), one, 0), mc(0 - rhs.c))
    ELSE IF IsNegate(rhs) THEN
        IF IsConstant(rhs.e) THEN    \* v1 = -c2
            constant(add(witness(vm, v1.id, zero, zero), one, 0), mc(rhs.e.c))
        ELSE IF IsVariable(rhs.e) THEN   \* v1 = -v2
            add(witness(vm, v1.id, rhs.e.id, zero), one, one)
        ELSE Unsupported
    ELSE IF IsInfix(rhs, "Add") THEN
        LET e2 == rhs.a
            e3 == rhs.b
            pair == LeafPair(e2, e3)
        IN
        IF pair = "cc" THEN          \* v1 = c2 + c3
            constant(add(witness(vm, v1.id, zero, zero), one, 0),
                     mc((0 - e2.c) - e3.c))
        ELSE IF pair = "vc" THEN     \* v1 = v2 + c3
            constant(add(witness(vm, v1.id, e2.id, zero), one, FNeg(one)),
                     mc(0 - e3.c))
        ELSE IF pair = "cv" THEN     \* v1 = c2 + v3
            constant(add(witness(vm, v1.id, e3.id, zero), one, FNeg(one)),
                     mc(0 - e2.c))
        ELSE IF pair = "vv" THEN     \* v1 = v2 + v3
            out(add(witness(vm, v1.id, e2.id, e3.id), one, FNeg(one)), FNeg(one))
        ELSE Unsupported
    ELSE IF IsInfix(rhs, "Subtract") THEN
        LET e2 == rhs.a
            e3 == rhs.b
            pair == LeafPair(e2, e3)
        IN
        IF pair = "cc" THEN          \* v1 = c2 - c3
            constant(add(witness(vm, v1.id, zero, zero), one, 0),
                     mc((0 - e2.c) + e3.c))
        ELSE IF pair = "vc" THEN     \* v1 = v2 - c3
            constant(add(witness(vm, v1.id, e2.id, zero), one, FNeg(one)),
                     mc(e3.c))
        ELSE IF pair = "cv" THEN     \* v1 = c2 - v3
            constant(add(witness(vm, v1.id, e3.id, zero), one, one),
                     mc(0 - e2.c))
        ELSE IF pair = "vv" THEN     \* v1 = v2 - v3
            out(add(witness(vm, v1.id, e2.id, e3.id), one, FNeg(one)), one)
        ELSE Unsupported
    ELSE IF IsInfix(rhs, "Divide") THEN
        plonk_variable_divide(vm, v1, rhs.a, rhs.b, FALSE)
    ELSE IF IsInfix(rhs, "DivideZ") THEN
        plonk_variable_divide(vm, v1, rhs.a, rhs.b, TRUE)
    ELSE IF IsInfix(rhs, "Multiply") THEN
        LET e2 == rhs.a
            e3 == rhs.b
            pair == LeafPair(e2, e3)
        IN
        IF pair = "cc" THEN          \* v1 = c2 * c3
            constant(add(witness(vm, v1.id, zero, zero), one, 0),
                     FNeg(FMul(mc(e2.c), mc(e3.c))))
        ELSE IF pair = "vc" THEN     \* v1 = v2 * c3
            add(witness(vm, v1.id, e2.id, zero), one, FNeg(mc(e3.c)))
        ELSE IF pair = "cv" THEN     \* v1 = c2 * v3
            add(witness(vm, v1.id, e3.id, zero), one, FNeg(mc(e2.c)))
        ELSE IF pair = "vv" THEN     \* v1 = v2 * v3
            out(mul(witness(vm, e2.id, e3.id, v1.id), one), FNeg(one))
        ELSE Unsupported
    ELSE Unsupported

\* the arms of `/` and `|` with a constant on the left (lines 751-867)
plonk_constant_divide(vm, c1, e2, e3, safe) ==
    LET mc(c) == plonk_make_constant(c)
        one == 1
        zero == ZeroWire
        op1 == mc(c1.c)
        pair == LeafPair(e2, e3)
    IN
    IF pair = "cc" THEN              \* c1 = c2 / c3, c1 = c2 | c3
        LET op2 == mc(e2.c)
            op3 == mc(e3.c)
        IN IF op3 = 0 /\ ~safe THEN DivisionPanic
           ELSE constant(add(witness(vm, zero, zero, zero), 0, 0),
                         FSub(op1, IF op3 = 0 THEN 0 ELSE FDiv(op2, op3)))
    ELSE IF pair = "vc" THEN         \* c1 = v2 / c3, c1 = v2 | c3
        constant(add(witness(vm, e2.id, zero, zero), one, 0),
                 FNeg(FMul(op1, mc(e3.c))))
    ELSE IF pair = "cv" THEN         \* c1 = c2 / v3 ***, c1 = c2 | v3 ***
        LET op2 == mc(e2.c)
        IN IF op1 = 0 /\ ~safe THEN DivisionPanic
           ELSE constant(witness(vm, e3.id, zero, zero),
                         FNeg(IF op1 = 0 THEN 0 ELSE FDiv(op2, op1)))
    ELSE IF pair = "vv" THEN         \* c1 = v2 / v3 ***, c1 = v2 | v3 ***
        add(witness(vm, e2.id, e3.id, zero), one, FNeg(op1))
    ELSE Unsupported

\* arms with a constant on the left (lines 609-928)
plonk_constant_lhs(vm, c1, rhs) ==
    LET mc(c) == plonk_make_constant(c)
        one == 1
        zero == ZeroWire
    IN
    IF IsVariable(rhs) THEN          \* c1 = v2
        constant(add(witness(vm, rhs.id, zero, zero), one, 0), mc(0 - c1.c))
    ELSE IF IsConstant(rhs) THEN     \* c1 = c2
        constant(add(witness(vm, zero, zero, zero), 0, 0), mc(rhs.c - c1.c))
    ELSE IF IsNegate(rhs) THEN
        IF IsConstant(rhs.e) THEN    \* c1 = -c2
            constant(add(witness(vm, zero, zero, zero), 0, 0), mc(c1.c + rhs.e.c))
        ELSE IF IsVariable(rhs.e) THEN   \* c1 = -v2
            constant(add(witness(vm, rhs.e.id, zero, zero), one, 0), mc(c1.c))
        ELSE Unsupported
    ELSE IF IsInfix(rhs, "Add") THEN
        LET e2 == rhs.a
            e3 == rhs.b
            pair == LeafPair(e2, e3)
        IN
        IF pair = "cc" THEN          \* c1 = c2 + c3
            constant(add(witness(vm, zero, zero, zero), 0, 0),
                     mc((c1.c - e2.c) - e3.c))
        ELSE IF pair = "vc" THEN     \* c1 = v2 + c3
            constant(add(witness(vm, e2.id, zero, zero), one, 0), mc(e3.c - c1.c))
        ELSE IF pair = "cv" THEN     \* c1 = c2 + v3
            constant(add(witness(vm, e3.id, zero, zero), one, 0), mc(e2.c - c1.c))
        ELSE IF pair = "vv" THEN     \* c1 = v2 + v3
            constant(add(witness(vm, e2.id, e3.id, zero), one, one), mc(0 - c1.c))
        ELSE Unsupported
    ELSE IF IsInfix(rhs, "Subtract") THEN
        LET e2 == rhs.a
            e3 == rhs.b
            pair == LeafPair(e2, e3)
        IN
        IF pair = "cc" THEN          \* c1 = c2 - c3
            constant(add(witness(vm, zero, zero, zero), 0, 0),
                     mc((e2.c - e3.c) - c1.c))
        ELSE IF pair = "vc" THEN     \* c1 = v2 - c3
            constant(add(witness(vm, e2.id, zero, zero), one, 0),
                     mc((0 - e3.c) - c1.c))
        ELSE IF pair = "cv" THEN     \* c1 = c2 - v3
            constant(add(witness(vm, e3.id, zero, zero), one, 0), mc(c1.c - e2.c))
        ELSE IF pair = "vv" THEN     \* c1 = v2 - v3
            constant(add(witness(vm, e2.id, e3.id, zero), one, FNeg(one)),
                     mc(0 - c1.c))
        ELSE Unsupported
    ELSE IF IsInfix(rhs, "Divide") THEN
        plonk_constant_divide(vm, c1, rhs.a, rhs.b, FALSE)
    ELSE IF IsInfix(rhs, "DivideZ") THEN
        plonk_constant_divide(vm, c1, rhs.a, rhs.b, TRUE)
    ELSE IF IsInfix(rhs, "Multiply") THEN
        LET e2 == rhs.a
            e3 == rhs.b
            pair == LeafPair(e2, e3)
            op1 == mc(c1.c)
        IN
        IF pair = "cc" THEN          \* c1 = c2 * c3
            constant(add(witness(vm, zero, zero, zero), 0, 0),
                     FSub(op1, FMul(mc(e2.c), mc(e3.c))))
        ELSE IF pair = "vc" THEN     \* c1 = v2 * c3
            constant(add(witness(vm, e2.id, zero, zero), mc(e3.c), 0), FNeg(op1))
        ELSE IF pair = "cv" THEN     \* c1 = c2 * v3
            constant(add(witness(vm, e3.id, zero, zero), mc(e2.c), 0), FNeg(op1))
        ELSE IF pair = "vv" THEN     \* c1 = v2 * v3
            constant(mul(witness(vm, e2.id, e3.id, zero), one), FNeg(op1))
        ELSE Unsupported
    ELSE Unsupported

\* the `match (&lhs.v, &rhs.v)` of gadget
plonk_match(vm, lhs, rhs) ==
    IF IsVariable(lhs) THEN plonk_variable_lhs(vm, lhs, rhs)
    ELSE IF IsConstant(lhs) THEN plonk_constant_lhs(vm, lhs, rhs)
    ELSE Unsupported

-----------------------------------------------------------------------------
(* Synthesis: Halo2Module::synthesize and PlonkModule::gadget *)

IsEquality(expr) == IsInfix(expr, "Equal")

\* the match on one equality constraint, in the backend's emitter
synthesize_match(b, vm, lhs, rhs) ==
    IF b = "halo2" THEN halo2_match(vm, lhs, rhs) ELSE plonk_match(vm, lhs, rhs)

\* halo2: the row that creates the zero cell (its b wire);
\* plonk: one public-input gate per entry of module.pubs, in order
halo2_zero_row(vm) == Row(vm, ZeroWire, ZeroWire, ZeroWire, 0, 1, 0, 0, 0, 0)
\* (faulty variant: the gates are emitted in the reverse order of pubs)
plonk_public_gates_reversed(vm, pubs) ==
    [i \in 1 .. Len(pubs) |->
        pi(add(witness(vm, pubs[Len(pubs) + 1 - i], ZeroWire, ZeroWire), FNeg(1), 0),
           vm[pubs[Len(pubs) + 1 - i]])]
plonk_public_gates(vm, pubs) ==
    [i \in 1 .. Len(pubs) |->
        pi(add(witness(vm, pubs[i], ZeroWire, ZeroWire), FNeg(1), 0), vm[pubs[i]])]

\* the rows emitted before the loop over module.exprs
Preamble(b, vm, m) ==
    IF b = "halo2" THEN <<halo2_zero_row(vm)>> ELSE plonk_public_gates(vm, m.pubs)

\* raw_poly / composer.arithmetic_gate: the sink appends the row
emit(gs, g) == Append(gs, g)

\* the loop index after one entry of module.exprs
next_entry(i) == i + 1

\* synthesis runs on a constructed circuit (key generation) or on a
\* populated one (proving)
SynthBegin ==
    /\ pc \in {"constructed", "ready"}
    /\ gates' = Preamble(backend, variable_map, module)
    /\ cells' = EmptyMap
    /\ copies' = {}
    /\ idx' = 1
    /\ pc' = "synth"
    /\ UNCHANGED <<blobs, decoded, cli,
                   inputs, backend, module, variable_map, k, definitions,
                   field_assigns, todo, err, arg, result>>

CurrentMatch ==
    synthesize_match(backend, variable_map, module.exprs[idx].a, module.exprs[idx].b)

\* an equality constraint that some arm matches: one row
SynthGate ==
    /\ pc = "synth"
    /\ idx <= Len(module.exprs)
    /\ IsEquality(module.exprs[idx])
    /\ CurrentMatch.st = "gate"
    /\ gates' = emit(gates, CurrentMatch)
    /\ cells' = IF backend = "halo2"
                 THEN make_gate_copies(cells, copies, Len(gates) + 1, CurrentMatch).cells
                 ELSE cells
    /\ copies' = IF backend = "halo2"
                  THEN make_gate_copies(cells, copies, Len(gates) + 1, CurrentMatch).copies
                  ELSE copies
    /\ idx' = next_entry(idx)
    /\ UNCHANGED <<blobs, decoded, cli,
                   inputs, backend, module, variable_map, k, pc, definitions,
                   field_assigns, todo, err, arg, result>>

\* `if let Expr::Infix(InfixOp::Equal, lhs, rhs) = &expr.v` has no else: an
\* entry that is not an equality is passed over
SynthSkip ==
    /\ pc = "synth"
    /\ idx <= Len(module.exprs)
    /\ ~IsEquality(module.exprs[idx])
    /\ idx' = next_entry(idx)
    /\ UNCHANGED <<blobs, decoded, cli, cells, copies,
                   inputs, backend, module, variable_map, k, pc, definitions,
                   field_assigns, todo, gates, err, arg, result>>

\* `_ => panic!("unsupported constraint encountered: {}", expr)`
SynthUnsupported ==
    /\ pc = "synth"
    /\ idx <= Len(module.exprs)
    /\ IsEquality(module.exprs[idx])
    /\ CurrentMatch.st = "unsupported"
    /\ pc' = "panic"
    /\ err' = [kind |-> "unsupported constraint", expr |-> module.exprs[idx]]
    /\ UNCHANGED <<blobs, decoded, cli, cells, copies,
                   inputs, backend, module, variable_map, k, definitions,
                   field_assigns, todo, idx, gates, arg, result>>

\* an arm that divides by a constant that is zero in the field panics
SynthDivisionPanic ==
    /\ pc = "synth"
    /\ idx <= Len(module.exprs)
    /\ IsEquality(module.exprs[idx])
    /\ CurrentMatch.st = "division by zero"
    /\ pc' = "panic"
    /\ err' = [kind |-> "division by zero", expr |-> module.exprs[idx]]
    /\ UNCHANGED <<blobs, decoded, cli, cells, copies,
                   inputs, backend, module, variable_map, k, definitions,
                   field_assigns, todo, idx, gates, arg, result>>

\* the loop is over: Ok(())
SynthReturn ==
    /\ pc = "synth"
    /\ idx > Len(module.exprs)
    /\ pc' = "done"
    /\ UNCHANGED <<blobs, decoded, cli, cells, copies,
                   inputs, backend, module, variable_map, k, definitions,
                   field_assigns, todo, idx, gates, err, arg, result>>

NextSynth ==
    \/ SynthBegin
    \/ SynthGate
    \/ SynthSkip
    \/ SynthUnsupported
    \/ SynthDivisionPanic
    \/ SynthReturn

\* the rows emitted by the loop over module.exprs
ConstraintGates == SubSeq(gates, Len(Preamble(backend, variable_map, module)) + 1, Len(gates))

-----------------------------------------------------------------------------
(* The modules synthesis is run on *)

ArithOps == {"Add", "Subtract", "Multiply", "Divide", "DivideZ"}
\* small signed constants, P: a non-zero integer that is 0 in the field, and
\* 2^WideBits: the least magnitude that make_constant of Backend A truncates
GateConsts == ((0 - MaxConst) .. MaxConst) \cup {P, 2 ^ WideBits}
Leaves == {Variable(v) : v \in VariableIds} \cup {Constant(c) : c \in GateConsts}
NegatedLeaves == {Negate(l) : l \in Leaves}
InfixLeaves(ops) == {Infix(op, a, b) : op \in ops, a \in Leaves, b \in Leaves}

\* three-address equalities with the leaf on the left, and mirrored
LeftLeafConstraints ==
    {Infix("Equal", l, r) :
        l \in Leaves, r \in Leaves \cup NegatedLeaves \cup InfixLeaves(ArithOps)}
RightLeafConstraints ==
    {Infix("Equal", r, l) :
        l \in Leaves, r \in NegatedLeaves \cup InfixLeaves(ArithOps)}
\* entries outside the three-address grammar
OtherEntries ==
    {Infix("Equal", Variable(1), Infix(op, Variable(2), Constant(1))) :
        op \in {"IntDivide", "Modulo", "Exponentiate"}}
    \cup {Infix("Equal", Variable(1), Negate(Negate(Variable(2)))),
          Infix("Add", Variable(1), Variable(2)),
          Variable(1)}

GateEntries == LeftLeafConstraints \cup RightLeafConstraints \cup OtherEntries

ModuleOf(exprs) == [pubs |-> <<>>, defs |-> <<>>, exprs |-> exprs]

\* one constraint and a fully populated witness map
InitGate ==
    /\ blobs = <<>>
    /\ decoded = NoDecode
    /\ cli = NoCommand
    /\ cells = EmptyMap
    /\ copies = {}
    /\ inputs = EmptyMap
    /\ backend \in Backends
    /\ module \in {ModuleOf(<<e>>) : e \in GateEntries}
    /\ variable_map \in [collect_module_variables(module) -> Field]
    /\ k = 0
    /\ pc = "ready"
    /\ definitions = EmptyMap
    /\ field_assigns = EmptyMap
    /\ todo = {}
    /\ idx = 0
    /\ gates = <<>>
    /\ err = NoError
    /\ arg = 0
    /\ result = 0

SpecGate == InitGate /\ [][NextSynth]_vars

-----------------------------------------------------------------------------
(* evaluate_expr and populate_variables *)

EvalOk(val, assigns) == [st |-> "ok", val |-> val, assigns |-> assigns]
\* a panic inside the evaluator: the whole operation is abandoned
EvalPanic(kind) == [st |-> kind, val |-> Unknown, assigns |-> EmptyMap]

\* assigns.insert(v.id, val)
\* (faulty variant: a different value is memoized)
memoize_off_by_one(assigns, id, val) ==
    [x \in DOMAIN assigns \cup {id} |-> IF x = id THEN FAdd(val, 1) ELSE assigns[x]]
\* (faulty variant: the value is not stored)
memoize_dropped(assigns, id, val) == assigns
memoize(assigns, id, val) ==
    [x \in DOMAIN assigns \cup {id} |-> IF x = id THEN val ELSE assigns[x]]

\* (faulty variant: the operands of the subtraction are exchanged)
evaluate_infix_exchanged(op, x, y, assigns) ==
    IF op = "Add" THEN EvalOk(FAdd(x, y), assigns)
    ELSE IF op = "Subtract" THEN EvalOk(FSub(y, x), assigns)
    ELSE IF op = "Multiply" THEN EvalOk(FMul(x, y), assigns)
    ELSE IF y = 0 THEN EvalPanic("division by zero")
    ELSE IF op = "Divide" THEN EvalOk(FMul(x, FInvert(y)), assigns)
    ELSE IF op = "IntDivide" THEN EvalOk(x \div y, assigns)
    ELSE EvalOk(x % y, assigns)
\* (faulty variant: a zero denominator gives zero)
evaluate_infix_zero(op, x, y, assigns) ==
    IF op = "Add" THEN EvalOk(FAdd(x, y), assigns)
    ELSE IF op = "Subtract" THEN EvalOk(FSub(x, y), assigns)
    ELSE IF op = "Multiply" THEN EvalOk(FMul(x, y), assigns)
    ELSE IF y = 0 THEN EvalOk(0, assigns)
    ELSE IF op = "Divide" THEN EvalOk(FMul(x, FInvert(y)), assigns)
    ELSE IF op = "IntDivide" THEN EvalOk(x \div y, assigns)
    ELSE EvalOk(x % y, assigns)
\* the arithmetic of the two-operand arms that evaluate a, then b
evaluate_infix(op, x, y, assigns) ==
    IF op = "Add" THEN EvalOk(FAdd(x, y), assigns)
    ELSE IF op = "Subtract" THEN EvalOk(FSub(x, y), assigns)
    ELSE IF op = "Multiply" THEN EvalOk(FMul(x, y), assigns)
    ELSE IF op = "Divide" THEN
        \* halo2: invert().unwrap(); plonk: the field's `/` unwraps the inverse
        (IF y = 0 THEN EvalPanic("division by zero")
         ELSE EvalOk(FMul(x, FInvert(y)), assigns))
    ELSE IF op = "IntDivide" THEN
        (IF y = 0 THEN EvalPanic("division by zero") ELSE EvalOk(x \div y, assigns))
    ELSE
        (IF y = 0 THEN EvalPanic("division by zero") ELSE EvalOk(x % y, assigns))

\* evaluate_expr(expr, defs, assigns): the value, and assigns as the call
\* leaves it.  stack holds the variables whose definitions are under
\* evaluation: re-entering one of them is the recursion that never returns
\* and exhausts the call stack.
RECURSIVE evaluate_expr(_, _, _, _, _)
evaluate_expr(b, expr, defs, assigns, stack) ==
    IF IsConstant(expr) THEN EvalOk(make_constant(b, expr.c), assigns)
    ELSE IF IsVariable(expr) THEN
        IF expr.id \in DOMAIN assigns THEN EvalOk(assigns[expr.id], assigns)
        ELSE IF expr.id \notin DOMAIN defs THEN EvalPanic("missing definition")
        ELSE IF expr.id \in stack THEN EvalPanic("stack overflow")
        ELSE LET r == evaluate_expr(b, defs[expr.id], defs, assigns,
                                    stack \cup {expr.id})
             IN  IF r.st # "ok" THEN r
                 ELSE EvalOk(r.val, memoize(r.assigns, expr.id, r.val))
    ELSE IF IsNegate(expr) THEN
        LET r == evaluate_expr(b, expr.e, defs, assigns, stack)
        IN  IF r.st # "ok" THEN r ELSE EvalOk(FNeg(r.val), r.assigns)
    ELSE IF IsInfix(expr, "DivideZ") /\ b = "plonk" THEN
        \* the denominator first; the numerator only when it is non-zero
        LET denom == evaluate_expr(b, expr.b, defs, assigns, stack)
        IN  IF denom.st # "ok" THEN denom
            ELSE IF denom.val = 0 THEN EvalOk(0, denom.assigns)
            ELSE LET num == evaluate_expr(b, expr.a, defs, denom.assigns, stack)
                 IN  IF num.st # "ok" THEN num
                     ELSE EvalOk(FMul(num.val, FInvert(denom.val)), num.assigns)
    ELSE IF expr.t = "Infix" /\ expr.op \in
                {"Add", "Subtract", "Multiply", "Divide", "IntDivide", "Modulo"} THEN
        LET x == evaluate_expr(b, expr.a, defs, assigns, stack)
        IN  IF x.st # "ok" THEN x
            ELSE LET y == evaluate_expr(b, expr.b, defs, x.assigns, stack)
                 IN  IF y.st # "ok" THEN y
                     ELSE evaluate_infix(expr.op, x.val, y.val, y.assigns)
    ELSE EvalPanic("unexpected expression")

\* the variables whose definitions a call of evaluate_expr that returns
\* evaluates, in the order in which it enters them
RECURSIVE evaluated_definitions(_, _, _, _, _)
evaluated_definitions(b, expr, defs, assigns, stack) ==
    IF evaluate_expr(b, expr, defs, assigns, stack).st # "ok" THEN <<>>
    ELSE IF IsConstant(expr) THEN <<>>
    ELSE IF IsVariable(expr) THEN
        IF expr.id \in DOMAIN assigns THEN <<>>
        ELSE <<expr.id>> \o evaluated_definitions(b, defs[expr.id], defs, assigns,
                                                   stack \cup {expr.id})
    ELSE IF IsNegate(expr) THEN evaluated_definitions(b, expr.e, defs, assigns, stack)
    ELSE IF IsInfix(expr, "DivideZ") THEN
        LET denom == evaluate_expr(b, expr.b, defs, assigns, stack)
        IN  evaluated_definitions(b, expr.b, defs, assigns, stack)
            \o (IF denom.val = 0 THEN <<>>
                ELSE evaluated_definitions(b, expr.a, defs, denom.assigns, stack))
    ELSE evaluated_definitions(b, expr.a, defs, assigns, stack)
         \o evaluated_definitions(b, expr.b, defs,
                evaluate_expr(b, expr.a, defs, assigns, stack).assigns, stack)

\* the definition map: definitions.insert(var.id, expr) for each def in order,
\* a later definition of a variable replacing an earlier one
LastDef(defs, v) ==
    CHOOSE i \in 1 .. Len(defs) :
        /\ defs[i][1] = v
        /\ \A j \in (i + 1) .. Len(defs) : defs[j][1] # v
build_definitions(defs) ==
    [v \in {defs[i][1] : i \in 1 .. Len(defs)} |-> defs[LastDef(defs, v)][2]]

\* `*value = Value::known(...)` / `*value = ...`
\* (faulty variant: the value is not stored)
store_dropped(vm, var, val) == vm
store(vm, var, val) == [vm EXCEPT ![var] = val]

\* populate_variables is entered: the definition map is built
PopulateBegin(assigns) ==
    /\ pc = "constructed"
    /\ inputs' = assigns
    /\ definitions' = build_definitions(module.defs)
    /\ field_assigns' = assigns
    /\ todo' = DOMAIN variable_map
    /\ pc' = "populate"
    /\ UNCHANGED <<blobs, decoded, cli, cells, copies,
                   backend, module, variable_map, k, idx, gates, err, arg, result>>

\* one iteration of `for (var, value) in &mut self.variable_map`, the map's
\* iteration order being arbitrary
PopulateStep ==
    /\ pc = "populate"
    /\ \E var \in todo :
        LET r == evaluate_expr(backend, Variable(var), definitions, field_assigns, {})
        IN  /\ r.st = "ok"
            /\ variable_map' = store(variable_map, var, r.val)
            /\ field_assigns' = r.assigns
            /\ todo' = todo \ {var}
    /\ UNCHANGED <<blobs, decoded, cli, cells, copies,
                   inputs, backend, module, k, pc, definitions, idx, gates, err, arg, result>>

\* the evaluation of the iteration's variable panics
PopulatePanic ==
    /\ pc = "populate"
    /\ \E var \in todo :
        LET r == evaluate_expr(backend, Variable(var), definitions, field_assigns, {})
        IN  /\ r.st # "ok"
            /\ err' = [kind |-> r.st, expr |-> Variable(var)]
    /\ pc' = "panic"
    /\ UNCHANGED <<blobs, decoded, cli, cells, copies,
                   inputs, backend, module, variable_map, k, definitions, field_assigns,
                   todo, idx, gates, arg, result>>

\* the loop is over: populate_variables returns
PopulateReturn ==
    /\ pc = "populate"
    /\ todo = {}
    /\ pc' = "ready"
    /\ UNCHANGED <<blobs, decoded, cli, cells, copies,
                   inputs, backend, module, variable_map, k, definitions, field_assigns,
                   todo, idx, gates, err, arg, result>>

-----------------------------------------------------------------------------
(* The modules and inputs populate_variables is run on *)

PopVars == {1, 2}
OtherVar(v) == IF v = 1 THEN 2 ELSE 1
\* right-hand sides of the definition of v, over the other variable
DefExprs(v) ==
    {Constant(1), Variable(OtherVar(v)), Negate(Variable(OtherVar(v)))}
    \cup {Infix(op, Variable(OtherVar(v)), Constant(1)) :
            op \in {"Add", "Subtract", "Exponentiate"}}
    \cup {Infix(op, Constant(1), Variable(OtherVar(v))) :
            op \in {"Divide", "DivideZ", "Modulo", "IntDivide"}}
    \cup {Infix("Multiply", Variable(OtherVar(v)), Variable(OtherVar(v))),
          Infix("Exponentiate", Variable(OtherVar(v)), Constant(0 - 3))}
\* no definition of v, or one
DefChoices(v) == {<<>>} \cup {<< <<v, e>> >> : e \in DefExprs(v)}
\* no further definition, or a second definition of variable 1
Redefinitions == {<<>>, << <<1, Constant(0)>> >>}
PopDefs == {d1 \o d2 \o d3 : d1 \in DefChoices(1), d2 \in DefChoices(2), d3 \in Redefinitions}
PopConstraints ==
    {Infix("Equal", Variable(1), e) : e \in DefExprs(1)}
    \cup {Infix("Equal", Constant(0), Constant(1)),
          Infix("Equal", Constant(1), Variable(2))}
PopModules ==
    {[pubs |-> <<>>, defs |-> d, exprs |-> <<c>>] : d \in PopDefs, c \in PopConstraints}
\* the program inputs: values for some of the variables, or for a variable
\* the module does not mention
InputMaps ==
    UNION {[S -> 0 .. MaxInput] : S \in SUBSET PopVars}
    \cup {[v \in {3} |-> 1]}

InitPop ==
    /\ blobs = <<>>
    /\ decoded = NoDecode
    /\ cli = NoCommand
    /\ cells = EmptyMap
    /\ copies = {}
    /\ inputs = EmptyMap
    /\ backend \in Backends
    /\ module \in PopModules
    /\ variable_map = EmptyMap
    /\ k = 0
    /\ pc = "start"
    /\ definitions = EmptyMap
    /\ field_assigns = EmptyMap
    /\ todo = {}
    /\ idx = 0
    /\ gates = <<>>
    /\ err = NoError
    /\ arg = 0
    /\ result = 0

NextPop ==
    \/ Halo2New
    \/ PlonkNew
    \/ \E assigns \in InputMaps : PopulateBegin(assigns)
    \/ PopulateStep
    \/ PopulatePanic
    \/ PopulateReturn

SpecPop == InitPop /\ [][NextPop]_vars

-----------------------------------------------------------------------------
(* The pipeline: construction, then synthesis of a list of entries *)

\* entries of module.exprs: constraints each backend has an arm for, a `|`
\* constraint, a constraint with its leaf on the right, a division by a
\* constant that is zero in the field, and an entry that is not an equality
ListEntries ==
    {Infix("Equal", Variable(1), Infix("Add", Variable(2), Variable(3))),
     Infix("Equal", Constant(1), Infix("Multiply", Variable(1), Variable(2))),
     Infix("Equal", Constant(0), Constant(0)),
     Infix("Equal", Variable(1), Infix("DivideZ", Variable(2), Variable(3))),
     Infix("Equal", Infix("Add", Variable(2), Variable(3)), Variable(1)),
     Infix("Equal", Variable(1), Infix("Divide", Constant(1), Constant(0))),
     Infix("Equal", Variable(2), Infix("Multiply", Variable(2), Variable(2))),
     Infix("Add", Variable(1), Variable(2))}

RECURSIVE ListsUpTo(_)
ListsUpTo(n) ==
    IF n = 0 THEN {<<>>}
    ELSE LET shorter == ListsUpTo(n - 1)
         IN  shorter \cup {Append(l, e) : l \in shorter, e \in ListEntries}

Init ==
    /\ blobs = <<>>
    /\ decoded = NoDecode
    /\ cli = NoCommand
    /\ cells = EmptyMap
    /\ copies = {}
    /\ inputs = EmptyMap
    /\ backend \in Backends
    /\ module \in {[pubs |-> p, defs |-> <<>>, exprs |-> l] :
                       p \in {<<>>, <<1>>}, l \in ListsUpTo(MaxExprs)}
    /\ variable_map = EmptyMap
    /\ k = 0
    /\ pc = "start"
    /\ definitions = EmptyMap
    /\ field_assigns = EmptyMap
    /\ todo = {}
    /\ idx = 0
    /\ gates = <<>>
    /\ err = NoError
    /\ arg = 0
    /\ result = 0

Next ==
    \/ Halo2New
    \/ PlonkNew
    \/ NextSynth

Spec == Init /\ [][Next]_vars

-----------------------------------------------------------------------------
(* The modules with public variables synthesis is run on *)

\* the lists of at most n public variables
RECURSIVE PubLists(_)
PubLists(n) ==
    IF n = 0 THEN {<<>>}
    ELSE PubLists(n - 1) \cup {Append(l, v) : l \in PubLists(n - 1), v \in PopVars}

\* at most one constraint, public variables, and a populated witness map
InitPub ==
    /\ blobs = <<>>
    /\ decoded = NoDecode
    /\ cli = NoCommand
    /\ cells = EmptyMap
    /\ copies = {}
    /\ inputs = EmptyMap
    /\ backend \in Backends
    /\ module \in {[pubs |-> p, defs |-> <<>>, exprs |-> l] :
                       p \in PubLists(MaxPubs), l \in ListsUpTo(1)}
    /\ variable_map \in [collect_module_variables(module) -> 0 .. MaxInput]
    /\ k = 0
    /\ pc = "ready"
    /\ definitions = EmptyMap
    /\ field_assigns = EmptyMap
    /\ todo = {}
    /\ idx = 0
    /\ gates = <<>>
    /\ err = NoError
    /\ arg = 0
    /\ result = 0

SpecPub == InitPub /\ [][NextSynth]_vars

-----------------------------------------------------------------------------
(* PrimeFieldOps::infix *)

\* x^n in the field, n >= 0
RECURSIVE FPow(_, _)
FPow(x, n) ==
    IF n = 0 THEN 1 % P
    ELSE IF n % 2 = 0 THEN FPow(FMul(x, x), n \div 2)
    ELSE FMul(x, FPow(FMul(x, x), n \div 2))

\* BigInt::to_u64_digits: the number of limbs of the magnitude (none for 0)
RECURSIVE NumLimbs(_)
NumLimbs(n) == IF n = 0 THEN 0 ELSE 1 + NumLimbs(n \div (2 ^ LimbBits))

\* BigInt's `/` and `%`: the quotient truncated towards zero and its remainder
TruncDiv(a, b) ==
    IF (a < 0) = (b < 0) THEN Abs(a) \div Abs(b) ELSE 0 - (Abs(a) \div Abs(b))
TruncRem(a, b) == a - b * TruncDiv(a, b)

InfixOk(val) == [st |-> "ok", val |-> val]
InfixPanic(kind) == [st |-> "panic", kind |-> kind]

\* the Exponentiate arm.  halo2: FieldExt::pow takes &[u64; 4], and
\* limbs.try_into().unwrap() panics unless the exponent has exactly that many
\* limbs; plonk: pow takes the limbs themselves.
halo2_exponentiate(c, b) ==
    IF NumLimbs(Abs(b)) # PowLimbs THEN InfixPanic("limbs do not fit [u64; 4]")
    ELSE IF b < 0 THEN
        (IF FPow(c, Abs(b)) = 0 THEN InfixPanic("division by zero")
         ELSE InfixOk(FInvert(FPow(c, Abs(b)))))
    ELSE InfixOk(FPow(c, Abs(b)))
plonk_exponentiate(c, b) ==
    IF b < 0 THEN
        (IF FPow(c, Abs(b)) = 0 THEN InfixPanic("division by zero")
         ELSE InfixOk(FDiv(1, FPow(c, Abs(b)))))
    ELSE InfixOk(FPow(c, Abs(b)))

infix(bk, op, a, b) ==
    LET c == make_constant(bk, a)
        d == make_constant(bk, b)
    IN  IF op = "Add" THEN InfixOk(FAdd(c, d))
        ELSE IF op = "Subtract" THEN InfixOk(FSub(c, d))
        ELSE IF op = "Multiply" THEN InfixOk(FMul(c, d))
        ELSE IF op = "Divide" THEN
            (IF d = 0 THEN InfixPanic("division by zero")
             ELSE InfixOk(FMul(c, FInvert(d))))
        ELSE IF op = "DivideZ" THEN
            (IF d = 0 THEN InfixOk(0) ELSE InfixOk(FMul(c, FInvert(d))))
        ELSE IF op = "IntDivide" THEN
            (IF b = 0 THEN InfixPanic("division by zero") ELSE InfixOk(TruncDiv(a, b)))
        ELSE IF op = "Modulo" THEN
            (IF b = 0 THEN InfixPanic("division by zero") ELSE InfixOk(TruncRem(a, b)))
        ELSE IF op = "Exponentiate" THEN
            (IF bk = "halo2" THEN halo2_exponentiate(c, b) ELSE plonk_exponentiate(c, b))
        ELSE InfixPanic("cannot evaluate equals expression")

\* a call of infix that returns
CallInfix ==
    /\ pc = "call infix"
    /\ infix(backend, arg.op, arg.a, arg.b).st = "ok"
    /\ result' = infix(backend, arg.op, arg.a, arg.b).val
    /\ pc' = "infix"
    /\ UNCHANGED <<blobs, decoded, cli, cells, copies,
                   inputs, backend, module, variable_map, k, definitions,
                   field_assigns, todo, idx, gates, err, arg>>

\* a call of infix that panics
CallInfixPanic ==
    /\ pc = "call infix"
    /\ infix(backend, arg.op, arg.a, arg.b).st = "panic"
    /\ err' = [kind |-> infix(backend, arg.op, arg.a, arg.b).kind, expr |-> arg]
    /\ pc' = "panic"
    /\ UNCHANGED <<blobs, decoded, cli, cells, copies,
                   inputs, backend, module, variable_map, k, definitions,
                   field_assigns, todo, idx, gates, arg, result>>

InfixOps ==
    {"Add", "Subtract", "Multiply", "Divide", "DivideZ", "IntDivide", "Modulo",
     "Exponentiate", "Equal"}
\* small signed integers, and one whose magnitude needs more than WideBits bits
Operands ==
    ((0 - MaxOperand) .. MaxOperand) \cup {2 ^ WideBits, 0 - (2 ^ WideBits)}

InitInfix ==
    /\ blobs = <<>>
    /\ decoded = NoDecode
    /\ cli = NoCommand
    /\ cells = EmptyMap
    /\ copies = {}
    /\ inputs = EmptyMap
    /\ backend \in Backends
    /\ arg \in [op : InfixOps, a : Operands, b : Operands]
    /\ module = TrivialModule(0)
    /\ variable_map = EmptyMap
    /\ k = 0
    /\ pc = "call infix"
    /\ definitions = EmptyMap
    /\ field_assigns = EmptyMap
    /\ todo = {}
    /\ idx = 0
    /\ gates = <<>>
    /\ err = NoError
    /\ result = 0

NextInfix == CallInfix \/ CallInfixPanic

SpecInfix == InitInfix /\ [][NextInfix]_vars

-----------------------------------------------------------------------------
(* bincode::Encode and bincode::Decode of Halo2Module and PlonkModule *)

\* the little-endian digits of n in the given base, none for 0
\* (BigUint::to_u32_digits)
RECURSIVE Digits(_, _)
Digits(n, base) == IF n = 0 THEN <<>> ELSE <<n % base>> \o Digits(n \div base, base)

\* the number a sequence of little-endian digits stands for
\* (BigUint::new, BigUint::from_bytes_le)
RECURSIVE DigitsValue(_, _)
DigitsValue(ds, base) ==
    IF ds = <<>> THEN 0 ELSE Head(ds) + base * DigitsValue(Tail(ds), base)

\* PrimeField::to_repr: a fixed number of little-endian bytes
to_repr(x) == [i \in 1 .. ReprLen |-> (x \div ((2 ^ ByteBits) ^ (i - 1))) % (2 ^ ByteBits)]

DecodeOk(val) == [st |-> "ok", val |-> val]
DecodeErr(kind) == [st |-> "error", kind |-> kind]
DecodePanicked(kind) == [st |-> "panic", kind |-> kind]

\* Backend A: an Option of the repr; the tag 0 is None, 1 is Some
halo2_encode_value(v) == IF v = Unknown THEN <<0>> ELSE <<1>> \o to_repr(v)
\* Option::decode fails on a tag other than 0 and 1; from_repr(t).unwrap()
\* panics on a repr that is not below the modulus
halo2_decode_value(e) ==
    IF e[1] = 0 THEN DecodeOk(Unknown)
    ELSE IF e[1] # 1 THEN DecodeErr("unexpected variant")
    ELSE IF DigitsValue(Tail(e), 2 ^ ByteBits) >= P
         THEN DecodePanicked("from_repr returned None")
    ELSE DecodeOk(DigitsValue(Tail(e), 2 ^ ByteBits))

\* Backend B: the u32 digits of the element as a BigUint
plonk_encode_value(v) == Digits(v, 2 ^ DigitBits)
\* T::try_from(BigUint) is the conversion From<BigUint>, which reduces
\* modulo p and never fails
plonk_decode_value(e) == DecodeOk(DigitsValue(e, 2 ^ DigitBits) % P)

encode_value(bk, v) == IF bk = "halo2" THEN halo2_encode_value(v) ELSE plonk_encode_value(v)
decode_value(bk, e) == IF bk = "halo2" THEN halo2_decode_value(e) ELSE plonk_decode_value(e)

\* the derived encoding of Module: its fields one after the other
encode_module(m) == <<m.pubs, m.defs, m.exprs>>
decode_module(t) == [pubs |-> t[1], defs |-> t[2], exprs |-> t[3]]

\* the orders in which a HashMap with the given keys may be iterated
Orders(keys) ==
    {o \in [1 .. Cardinality(keys) -> keys] :
        \A i, j \in 1 .. Cardinality(keys) : o[i] = o[j] => i = j}

\* encode: the witness map in the iteration order of the fresh HashMap, then
\* the module, then (Backend A) k
encode(bk, m, vm, kk, order) ==
    [entries |-> [i \in 1 .. Len(order) |-> <<order[i], encode_value(bk, vm[order[i]])>>],
     module |-> encode_module(m),
     k |-> IF bk = "halo2" THEN <<kk>> ELSE <<>>]

\* the entries that do not decode to a value
BadEntries(bk, blob) ==
    {i \in 1 .. Len(blob.entries) : decode_value(bk, blob.entries[i][2]).st # "ok"}
FirstBadEntry(bk, blob) ==
    CHOOSE i \in BadEntries(bk, blob) : \A j \in BadEntries(bk, blob) : i <= j
\* inserting the decoded entries one after the other: the last one of a key stays
RECURSIVE InsertEntries(_, _, _)
InsertEntries(bk, es, vm) ==
    IF es = <<>> THEN vm
    ELSE InsertEntries(bk, Tail(es),
            [v \in DOMAIN vm \cup {Head(es)[1]} |->
                IF v = Head(es)[1] THEN decode_value(bk, Head(es)[2]).val ELSE vm[v]])

\* decode: the entries in the order of the blob, then the module, then k
decode(bk, blob) ==
    IF BadEntries(bk, blob) # {}
    THEN decode_value(bk, blob.entries[FirstBadEntry(bk, blob)][2])
    ELSE DecodeOk([module |-> decode_module(blob.module),
                   variable_map |-> InsertEntries(bk, blob.entries, EmptyMap),
                   k |-> IF bk = "halo2" THEN blob.k[1] ELSE 0])

\* the module in memory is encoded; every call iterates a HashMap of its own
Encode ==
    /\ pc = "module"
    /\ Len(blobs) < MaxEncodes
    /\ \E order \in Orders(DOMAIN variable_map) :
          blobs' = Append(blobs, encode(backend, module, variable_map, k, order))
    /\ UNCHANGED <<decoded, cli, cells, copies,
                   inputs, backend, module, variable_map, k, pc, definitions,
                   field_assigns, todo, idx, gates, err, arg, result>>

\* the newest blob is decoded
Decode ==
    /\ pc \in {"module", "blob"}
    /\ blobs # <<>>
    /\ decode(backend, blobs[Len(blobs)]).st = "ok"
    /\ decoded' = decode(backend, blobs[Len(blobs)]).val
    /\ pc' = "decoded"
    /\ UNCHANGED <<blobs, cli, cells, copies,
                   inputs, backend, module, variable_map, k, definitions,
                   field_assigns, todo, idx, gates, err, arg, result>>

\* decoding returns Err(DecodeError)
DecodeError ==
    /\ pc \in {"module", "blob"}
    /\ blobs # <<>>
    /\ decode(backend, blobs[Len(blobs)]).st = "error"
    /\ err' = [kind |-> decode(backend, blobs[Len(blobs)]).kind, expr |-> 0]
    /\ pc' = "decode error"
    /\ UNCHANGED <<blobs, decoded, cli, cells, copies,
                   inputs, backend, module, variable_map, k, definitions,
                   field_assigns, todo, idx, gates, arg, result>>

\* decoding panics
DecodePanic ==
    /\ pc \in {"module", "blob"}
    /\ blobs # <<>>
    /\ decode(backend, blobs[Len(blobs)]).st = "panic"
    /\ err' = [kind |-> decode(backend, blobs[Len(blobs)]).kind, expr |-> 0]
    /\ pc' = "panic"
    /\ UNCHANGED <<blobs, decoded, cli, cells, copies,
                   inputs, backend, module, variable_map, k, definitions,
                   field_assigns, todo, idx, gates, arg, result>>

\* the decoded module is encoded again
EncodeDecoded ==
    /\ pc = "decoded"
    /\ \E order \in Orders(DOMAIN decoded.variable_map) :
          blobs' = Append(blobs, encode(backend, decoded.module, decoded.variable_map,
                                        decoded.k, order))
    /\ pc' = "reencoded"
    /\ UNCHANGED <<decoded, cli, cells, copies,
                   inputs, backend, module, variable_map, k, definitions,
                   field_assigns, todo, idx, gates, err, arg, result>>

CodecModules ==
    {TrivialModule(0),
     ModuleOf(<<Infix("Equal", Variable(1), Constant(0))>>),
     ModuleOf(<<Infix("Equal", Variable(1), Variable(2))>>)}
\* the witness values a module can hold: Backend A starts them unknown
WitnessValues(bk) == IF bk = "halo2" THEN Field \cup {Unknown} ELSE Field

\* the encoded values a file can hold, valid or not
FileValues(bk) ==
    IF bk = "halo2"
    THEN {<<0>>} \cup {<<tag>> \o t : tag \in {1, 2}, t \in [1 .. ReprLen -> 0 .. (2 ^ ByteBits - 1)]}
    ELSE UNION {[1 .. n -> 0 .. (2 ^ DigitBits - 1)] : n \in 0 .. ReprLen}
FileBlobs(bk) ==
    {[entries |-> es,
      module |-> encode_module(ModuleOf(<<Infix("Equal", Variable(1), Variable(2))>>)),
      k |-> IF bk = "halo2" THEN <<4>> ELSE <<>>] :
        es \in {<<<<1, e>>>> : e \in FileValues(bk)} \cup
               {<<<<1, e1>>, <<2, e2>>>> : e1 \in FileValues(bk), e2 \in FileValues(bk)}}

\* either a module in memory (arg = "module") or a blob read from a file
\* (arg = "file")
InitCodec ==
    /\ decoded = NoDecode
    /\ cli = NoCommand
    /\ cells = EmptyMap
    /\ copies = {}
    /\ inputs = EmptyMap
    /\ backend \in Backends
    /\ arg \in {"module", "file"}
    /\ IF arg = "module"
       THEN /\ module \in CodecModules
            /\ variable_map \in [collect_module_variables(module) -> WitnessValues(backend)]
            /\ k = IF backend = "halo2"
                   THEN NewLoop(Len(module.exprs) + ROW_PADDING, 0) ELSE 0
            /\ blobs = <<>>
            /\ pc = "module"
       ELSE /\ module = TrivialModule(0)
            /\ variable_map = EmptyMap
            /\ k = 0
            /\ blobs \in {<<b>> : b \in FileBlobs(backend)}
            /\ pc = "blob"
    /\ definitions = EmptyMap
    /\ field_assigns = EmptyMap
    /\ todo = {}
    /\ idx = 0
    /\ gates = <<>>
    /\ err = NoError
    /\ result = 0

NextCodec == Encode \/ Decode \/ DecodeError \/ DecodePanic \/ EncodeDecoded

SpecCodec == InitCodec /\ [][NextCodec]_vars

-----------------------------------------------------------------------------
(* The prove and verify commands of the Halo2 command line *)

InputSources == {"--inputs", "default file", "prompt"}

\* (faulty variant: the file next to the circuit is preferred to --inputs)
input_source_default_first(c) ==
    IF c.default_exists THEN "default file"
    ELSE IF c.inputs_arg THEN "--inputs" ELSE "prompt"
\* `match inputs`: the file of --inputs; without it the file <circuit>.inputs
\* if it exists, the prompt otherwise
input_source(c) ==
    IF c.inputs_arg THEN "--inputs"
    ELSE IF c.default_exists THEN "default file" ELSE "prompt"

\* the variables the inputs are asked for: those without a definition
InputVariables(m) ==
    collect_module_variables(m) \ {m.defs[i][1] : i \in 1 .. Len(m.defs)}

\* `var_assignments.insert(k, make_constant(v))`
convert_assignments(ints) == [v \in DOMAIN ints |-> halo2_make_constant(ints[v])]

\* prove: the inputs are read from the one source input_source names
ProveReadInputs ==
    /\ cli.cmd = "prove"
    /\ cli.stage = "start"
    /\ pc = "constructed"
    /\ cli' = [cli EXCEPT
                 !.stage = "inputs",
                 !.read = cli.read \cup {input_source(cli)},
                 !.var_assignments =
                     [v \in InputVariables(module) |-> cli.contents[input_source(cli)]]]
    /\ UNCHANGED <<blobs, decoded, cells, copies,
                   inputs, backend, module, variable_map, k, pc, definitions,
                   field_assigns, todo, idx, gates, err, arg, result>>

\* prove: circuit.populate_variables(var_assignments)
ProvePopulate ==
    /\ cli.cmd = "prove"
    /\ cli.stage = "inputs"
    /\ PopulateBegin(convert_assignments(cli.var_assignments))

\* the stage a command is at once the synthesis it runs at a stage is over
AfterSynthesis(stage) ==
    IF stage = "inputs" THEN "vk" ELSE IF stage = "vk" THEN "pk" ELSE "proved"

\* prove: keygen_vk, keygen_pk and create_proof each synthesize the circuit
ProveSynthesize ==
    /\ cli.cmd = "prove"
    /\ cli.stage \in {"inputs", "vk", "pk"}
    /\ pc = "ready"
    /\ SynthBegin

\* prove: keygen_vk, keygen_pk or create_proof returns
ProveSynthesized ==
    /\ cli.cmd = "prove"
    /\ cli.stage \in {"inputs", "vk", "pk"}
    /\ pc = "done"
    /\ cli' = [cli EXCEPT !.stage = AfterSynthesis(cli.stage)]
    /\ pc' = "ready"
    /\ UNCHANGED <<blobs, decoded, cells, copies,
                   inputs, backend, module, variable_map, k, definitions,
                   field_assigns, todo, idx, gates, err, arg, result>>

\* prove: the proof is written to the output file and the command returns
ProveWrite ==
    /\ cli.cmd = "prove"
    /\ cli.stage = "proved"
    /\ pc = "ready"
    /\ cli' = [cli EXCEPT !.stage = "written", !.proof_file = TRUE,
                          !.output = "* Proof generation success!", !.exit = 0]
    /\ pc' = "exit"
    /\ UNCHANGED <<blobs, decoded, cells, copies,
                   inputs, backend, module, variable_map, k, definitions,
                   field_assigns, todo, idx, gates, err, arg, result>>

\* verify: keygen_vk synthesizes the circuit read from the file
VerifySynthesize ==
    /\ cli.cmd = "verify"
    /\ cli.stage = "start"
    /\ pc = "constructed"
    /\ SynthBegin

\* verify: ProofDataHalo2::deserialize(..).unwrap() on a file that is no proof
VerifyReadPanic ==
    /\ cli.cmd = "verify"
    /\ cli.stage = "start"
    /\ pc = "done"
    /\ cli.proof = "unreadable"
    /\ err' = [kind |-> "proof deserialization failed", expr |-> 0]
    /\ pc' = "panic"
    /\ UNCHANGED <<blobs, decoded, cli, cells, copies,
                   inputs, backend, module, variable_map, k, definitions,
                   field_assigns, todo, idx, gates, arg, result>>

\* verify: the verifier's result is printed, and the command returns
Verify ==
    /\ cli.cmd = "verify"
    /\ cli.stage = "start"
    /\ pc = "done"
    /\ cli.proof # "unreadable"
    /\ cli' = [cli EXCEPT
                 !.stage = "verified",
                 !.output = IF cli.proof = "valid"
                            THEN "* Zero-knowledge proof is valid"
                            ELSE "* Result from verifier: Err",
                 !.exit = 0]
    /\ pc' = "exit"
    /\ UNCHANGED <<blobs, decoded, cells, copies,
                   inputs, backend, module, variable_map, k, definitions,
                   field_assigns, todo, idx, gates, err, arg, result>>

\* the status the process exits with: 101 after an unwinding panic, 134
\* (abort, SIGABRT) after the runtime's "stack overflow, aborting"
ExitStatus ==
    IF pc = "panic"
    THEN (IF err.kind = "stack overflow" THEN 134 ELSE 101)
    ELSE cli.exit

CliModules ==
    {ModuleOf(<<Infix("Equal", Variable(2), Infix("Multiply", Variable(2), Variable(2)))>>),
     ModuleOf(<<Infix("Equal", Variable(1), Infix("Divide", Constant(1), Constant(0)))>>),
     ModuleOf(<<Infix("Add", Variable(1), Variable(2)),
                Infix("Equal", Constant(0), Constant(0))>>),
     ModuleOf(<<Infix("Equal", Variable(1), Infix("Modulo", Variable(2), Variable(3)))>>),
     [pubs |-> <<>>,
      defs |-> << <<1, Infix("Divide", Constant(1), Variable(2))>> >>,
      exprs |-> <<Infix("Equal", Variable(1), Infix("Divide", Constant(1), Variable(2)))>>]}
\* the integers a source of inputs gives to the input variables
CliValues == (0 - 1) .. 1

CliCommands ==
    [cmd : {"prove"}, inputs_arg : BOOLEAN, default_exists : BOOLEAN,
     contents : [InputSources -> CliValues], proof : {"none"},
     stage : {"start"}, read : {{}}, var_assignments : {EmptyMap},
     proof_file : {FALSE}, output : {""}, exit : {"running"}]
    \cup
    [cmd : {"verify"}, inputs_arg : {FALSE}, default_exists : {FALSE},
     contents : {[s \in InputSources |-> 0]}, proof : {"valid", "invalid", "unreadable"},
     stage : {"start"}, read : {{}}, var_assignments : {EmptyMap},
     proof_file : {FALSE}, output : {""}, exit : {"running"}]

\* the circuit file has been read: a module as compile wrote it
InitCli ==
    /\ blobs = <<>>
    /\ decoded = NoDecode
    /\ cli \in CliCommands
    /\ cells = EmptyMap
    /\ copies = {}
    /\ inputs = EmptyMap
    /\ backend = "halo2"
    /\ module \in CliModules
    /\ variable_map = [v \in collect_module_variables(module) |-> Unknown]
    /\ k = NewLoop(Len(module.exprs) + ROW_PADDING, 0)
    /\ pc = "constructed"
    /\ definitions = EmptyMap
    /\ field_assigns = EmptyMap
    /\ todo = {}
    /\ idx = 0
    /\ gates = <<>>
    /\ err = NoError
    /\ arg = 0
    /\ result = 0

NextCli ==
    \/ ProveReadInputs
    \/ ProvePopulate
    \/ PopulateStep
    \/ PopulatePanic
    \/ PopulateReturn
    \/ ProveSynthesize
    \/ ProveSynthesized
    \/ ProveWrite
    \/ VerifySynthesize
    \/ VerifyReadPanic
    \/ Verify
    \/ SynthGate
    \/ SynthSkip
    \/ SynthUnsupported
    \/ SynthDivisionPanic
    \/ SynthReturn

SpecCli == InitCli /\ [][NextCli]_vars

-----------------------------------------------------------------------------
(* PlonkModule::annotate_public_inputs *)

\* pi_map.get(pos).copied().unwrap_or(F::zero()): the value pi holds at a
\* position, zero where it holds none
pi_value(pi_map, pos) == IF pos \in DOMAIN pi_map THEN pi_map[pos] ELSE 0

\* `for (var, pos) in pubs.iter().zip(intended_pi_pos)` from the i-th pair on:
\* zip stops at the shorter of the two, insert replaces the entry of a key
RECURSIVE annotate_from(_, _, _, _, _)
annotate_from(i, pubs, positions, pi_map, annotated) ==
    IF i > Len(pubs) \/ i > Len(positions) THEN annotated
    ELSE annotate_from(i + 1, pubs, positions, pi_map,
            [v \in DOMAIN annotated \cup {pubs[i]} |->
                IF v = pubs[i]
                THEN [var |-> pubs[i], val |-> pi_value(pi_map, positions[i])]
                ELSE annotated[v]])

\* (faulty variant: the i-th variable gets the value at position i, not at
\* the i-th of the given positions)
annotate_public_inputs_by_index(pubs, positions, pi_map) ==
    annotate_from(1, pubs, [i \in 1 .. Len(positions) |-> i - 1], pi_map, EmptyMap)
annotate_public_inputs(pubs, positions, pi_map) ==
    annotate_from(1, pubs, positions, pi_map, EmptyMap)

\* a call of annotate_public_inputs(arg.positions, arg.pi)
CallAnnotate ==
    /\ pc = "call annotate"
    /\ result' = annotate_public_inputs(module.pubs, arg.positions, arg.pi)
    /\ pc' = "annotated"
    /\ UNCHANGED <<blobs, decoded, cli, cells, copies,
                   inputs, backend, module, variable_map, k, definitions,
                   field_assigns, todo, idx, gates, err, arg>>

\* the positions of a public-input vector
PiPositions == {0, 1, 2}
\* the lists of at most n positions
RECURSIVE PositionLists(_)
PositionLists(n) ==
    IF n = 0 THEN {<<>>}
    ELSE PositionLists(n - 1)
         \cup {Append(l, p) : l \in PositionLists(n - 1), p \in PiPositions}
\* the public-input vectors: values at some of the positions
PublicInputs == UNION {[S -> 0 .. MaxInput] : S \in SUBSET PiPositions}

InitAnnotate ==
    /\ blobs = <<>>
    /\ decoded = NoDecode
    /\ cli = NoCommand
    /\ cells = EmptyMap
    /\ copies = {}
    /\ inputs = EmptyMap
    /\ backend = "plonk"
    /\ module \in {[pubs |-> p, defs |-> <<>>, exprs |-> <<>>] : p \in PubLists(MaxPubs)}
    /\ variable_map = [v \in collect_module_variables(module) |-> 0]
    /\ k = 0
    /\ pc = "call annotate"
    /\ arg \in [positions : PositionLists(MaxPubs), pi : PublicInputs]
    /\ definitions = EmptyMap
    /\ field_assigns = EmptyMap
    /\ todo = {}
    /\ idx = 0
    /\ gates = <<>>
    /\ err = NoError
    /\ result = 0

NextAnnotate == CallAnnotate

SpecAnnotate == InitAnnotate /\ [][NextAnnotate]_vars

-----------------------------------------------------------------------------
(* The operations on a circuit module, one after the other *)

\* Circuit::without_witnesses (Backend A): the same module, k and keys, every
\* value unknown
\* (faulty variant: the entries of known witnesses are dropped)
without_witnesses_dropped(vm) == [v \in {x \in DOMAIN vm : vm[x] = Unknown} |-> Unknown]
without_witnesses(vm) == [v \in DOMAIN vm |-> Unknown]

WithoutWitnesses ==
    /\ backend = "halo2"
    /\ pc \in {"constructed", "ready"}
    /\ variable_map' = without_witnesses(variable_map)
    /\ pc' = "constructed"
    /\ UNCHANGED <<blobs, decoded, cli, cells, copies,
                   inputs, backend, module, k, definitions, field_assigns, todo,
                   idx, gates, err, arg, result>>

\* the circuit is written to a file and read back: the module in memory is
\* the decoded one
WriteRead ==
    /\ pc \in {"constructed", "ready"}
    /\ blobs = <<>>
    /\ \E order \in Orders(DOMAIN variable_map) :
          LET blob == encode(backend, module, variable_map, k, order)
          IN  /\ decode(backend, blob).st = "ok"
              /\ blobs' = <<blob>>
              /\ decoded' = decode(backend, blob).val
              /\ module' = decode(backend, blob).val.module
              /\ variable_map' = decode(backend, blob).val.variable_map
              /\ k' = decode(backend, blob).val.k
    /\ UNCHANGED <<cli, cells, copies,
                   inputs, backend, pc, definitions, field_assigns, todo,
                   idx, gates, err, arg, result>>

LifeDefs ==
    {<<>>,
     << <<1, Infix("Add", Variable(2), Constant(1))>> >>,
     << <<1, Infix("Divide", Constant(1), Variable(2))>> >>}
LifeConstraints ==
    {Infix("Equal", Variable(1), Infix("Add", Variable(2), Constant(1))),
     Infix("Equal", Variable(1), Infix("Divide", Constant(1), Constant(0))),
     Infix("Equal", Constant(1), Infix("Divide", Variable(2), Constant(0 - 1))),
     Infix("Equal", Variable(2), Infix("Multiply", Variable(1), Variable(1))),
     Infix("Equal", Variable(1), Negate(Variable(2))),
     Infix("Equal", Variable(1), Infix("Modulo", Variable(2), Variable(2))),
     Infix("Add", Variable(1), Variable(2))}
LifeModules ==
    {[pubs |-> p, defs |-> d, exprs |-> <<c>>] :
        p \in {<<>>, <<3>>}, d \in LifeDefs, c \in LifeConstraints}

InitLife ==
    /\ blobs = <<>>
    /\ decoded = NoDecode
    /\ cli = NoCommand
    /\ cells = EmptyMap
    /\ copies = {}
    /\ inputs = EmptyMap
    /\ backend \in Backends
    /\ module \in LifeModules
    /\ variable_map = EmptyMap
    /\ k = 0
    /\ pc = "start"
    /\ definitions = EmptyMap
    /\ field_assigns = EmptyMap
    /\ todo = {}
    /\ idx = 0
    /\ gates = <<>>
    /\ err = NoError
    /\ arg = 0
    /\ result = 0

NextLife ==
    \/ Halo2New
    \/ PlonkNew
    \/ \E assigns \in InputMaps : PopulateBegin(assigns)
    \/ PopulateStep
    \/ PopulatePanic
    \/ PopulateReturn
    \/ WithoutWitnesses
    \/ WriteRead
    \/ NextSynth

SpecLife == InitLife /\ [][NextLife]_vars

-----------------------------------------------------------------------------
(* Field semantics of expressions, used to state the claims *)

\* the value of e in the field under the assignment vm: strict division is
\* Unknown (undefined) when the denominator is 0, safe division is then 0
RECURSIVE FieldValue(_, _)
FieldValue(e, vm) ==
    IF IsConstant(e) THEN e.c % P
    ELSE IF IsVariable(e) THEN vm[e.id]
    ELSE IF IsNegate(e) THEN
        LET x == FieldValue(e.e, vm) IN IF x = Unknown THEN Unknown ELSE FNeg(x)
    ELSE
        LET x == FieldValue(e.a, vm)
            y == FieldValue(e.b, vm)
        IN  IF x = Unknown \/ y = Unknown THEN Unknown
            ELSE IF e.op = "Add" THEN FAdd(x, y)
            ELSE IF e.op = "Subtract" THEN FSub(x, y)
            ELSE IF e.op = "Multiply" THEN FMul(x, y)
            ELSE IF e.op = "Divide" THEN
                (IF y = 0 THEN Unknown ELSE FMul(x, FInvert(y)))
            ELSE IF e.op = "DivideZ" THEN
                (IF y = 0 THEN 0 ELSE FMul(x, FInvert(y)))
            ELSE Unknown

\* lhs = rhs holds in the field, every strict denominator being non-zero
ConstraintHolds(e, vm) ==
    /\ FieldValue(e.a, vm) # Unknown
    /\ FieldValue(e.b, vm) # Unknown
    /\ FieldValue(e.a, vm) = FieldValue(e.b, vm)

IsLeaf(e) == IsConstant(e) \/ IsVariable(e)
HasOp(e, ops) == e.t = "Infix" /\ e.op \in ops
\* the operator side of an equality constraint is an infix of one of ops
ConstraintHasOp(e, ops) == HasOp(e.a, ops) \/ HasOp(e.b, ops)

\* a leaf on the left; on the right a leaf, a negated leaf, or + - x / of two leaves
IsLeftLeafNormal(e) ==
    /\ IsEquality(e)
    /\ IsLeaf(e.a)
    /\ \/ IsLeaf(e.b)
       \/ IsNegate(e.b) /\ IsLeaf(e.b.e)
       \/ HasOp(e.b, {"Add", "Subtract", "Multiply", "Divide"})
             /\ IsLeaf(e.b.a) /\ IsLeaf(e.b.b)
\* the same with the sides of `=` exchanged
Mirror(e) == Infix("Equal", e.b, e.a)
IsNormalForm(e) == IsEquality(e) /\ (IsLeftLeafNormal(e) \/ IsLeftLeafNormal(Mirror(e)))

\* synthesis of a one-constraint module is over, with or without a panic
OneConstraintProcessed == Len(module.exprs) = 1 /\ pc \in {"done", "panic"}
\* synthesis of a one-constraint module has emitted the constraint's gate
OneGateEmitted == Len(module.exprs) = 1 /\ Len(gates) > 0 /\ Len(ConstraintGates) = 1

-----------------------------------------------------------------------------
(* C1 *)

\* C1: in Backend A, for every accepted constraint shape and every assignment
\* under which lhs = rhs holds with all denominators non-zero, the emitted row
\* satisfies q_l*a + q_r*b + q_m*a*b + q_o*c + q_c = 0, unused wires being 0.
C1_Halo2GateSatisfied ==
    (backend = "halo2" /\ OneGateEmitted
        /\ ConstraintHolds(module.exprs[1], variable_map))
    => GatePoly(ConstraintGates[1]) = 0

-----------------------------------------------------------------------------
(* C2 *)

\* C2: in Backend B, for every constraint shape built from + - x and strict /
\* (including c1 = c2 / v3) and every assignment under which lhs = rhs holds
\* with all denominators non-zero, the emitted arithmetic gate satisfies
\* q_l*a + q_r*b + q_m*a*b + q_o*c + q_c = 0, unset selectors being 0.
C2_PlonkGateSatisfied ==
    (backend = "plonk" /\ OneGateEmitted
        /\ ~ConstraintHasOp(module.exprs[1], {"DivideZ"})
        /\ ConstraintHolds(module.exprs[1], variable_map))
    => GatePoly(ConstraintGates[1]) = 0

-----------------------------------------------------------------------------
(* C3 *)

\* C3: in Backend B, for every `|` constraint shape and every witness in which
\* the quotient side equals the safe-divide of the operands (0 when the
\* denominator is 0), the emitted gate equation is satisfied, zero
\* denominators with non-zero numerators included.
C3_SafeDivideGateSatisfied ==
    (backend = "plonk" /\ OneGateEmitted
        /\ IsLeaf(module.exprs[1].a)
        /\ HasOp(module.exprs[1].b, {"DivideZ"})
        /\ ConstraintHolds(module.exprs[1], variable_map))
    => GatePoly(ConstraintGates[1]) = 0

-----------------------------------------------------------------------------
(* C4 *)

\* the gates of the equality entries of a list, in list order
RECURSIVE GatesFor(_, _, _)
GatesFor(b, vm, exprs) ==
    IF exprs = <<>> THEN <<>>
    ELSE (IF IsEquality(Head(exprs))
          THEN <<synthesize_match(b, vm, Head(exprs).a, Head(exprs).b)>>
          ELSE <<>>)
         \o GatesFor(b, vm, Tail(exprs))

\* C4: synthesis emits exactly one gate per entry of the constraint list, in
\* list order: the constraint gates correspond one-to-one, in order, to the
\* entries processed, and no entry is passed over without a gate or a fatal
\* error.
C4_OneGatePerEntry ==
    /\ (pc \in {"synth", "panic"}) => Len(ConstraintGates) = idx - 1
    /\ (pc = "done") =>
          /\ Len(ConstraintGates) = Len(module.exprs)
          /\ \A i \in 1 .. Len(module.exprs) :
                /\ IsEquality(module.exprs[i])
                /\ ConstraintGates[i] =
                      synthesize_match(backend, variable_map,
                                       module.exprs[i].a, module.exprs[i].b)

-----------------------------------------------------------------------------
(* C5 *)

ArmDividesByZero(b, e) ==
    /\ HasOp(e.b, {"Divide"})
    /\ IF b = "halo2"
       THEN /\ IsVariable(e.a)
            /\ IsConstant(e.b.b)
            /\ (Abs(e.b.b.c) % (2 ^ WideBits)) % P = 0
       ELSE \/ /\ IsVariable(e.a)
               /\ IsConstant(e.b.b)
               /\ e.b.b.c % P = 0
            \/ /\ IsConstant(e.a)
               /\ IsConstant(e.b.a)
               /\ IsConstant(e.b.b)
               /\ e.b.b.c % P = 0
            \/ /\ IsConstant(e.a)
               /\ IsConstant(e.b.a)
               /\ IsVariable(e.b.b)
               /\ e.a.c % P = 0

-----------------------------------------------------------------------------
(* C6 *)

\* C6: when an equality constraint matches no pattern, synthesis stops with
\* the unsupported-constraint error naming that expression; the gates of the
\* earlier constraints have been emitted, in order, and nothing is emitted
\* for the offending constraint or after it.  In particular Backend A never
\* proceeds past a `|` constraint.
C6_UnsupportedStops ==
    /\ (pc = "panic" /\ err.kind = "unsupported constraint") =>
          /\ idx \in 1 .. Len(module.exprs)
          /\ IsEquality(module.exprs[idx])
          /\ err.expr = module.exprs[idx]
          /\ ConstraintGates =
                GatesFor(backend, variable_map, SubSeq(module.exprs, 1, idx - 1))
          /\ ~ENABLED NextSynth
    /\ (backend = "halo2" /\ pc \in {"synth", "done"}) =>
          \A i \in 1 .. (idx - 1) :
              ~(IsEquality(module.exprs[i])
                    /\ ConstraintHasOp(module.exprs[i], {"DivideZ"}))

\* Backend A has stopped at a `|` constraint in second place, after the gate
\* of the first constraint and with a constraint still to come
C6_Witness ==
    /\ backend = "halo2" /\ pc = "panic" /\ err.kind = "unsupported constraint"
    /\ idx = 2 /\ Len(module.exprs) = 3
    /\ HasOp(module.exprs[2].b, {"DivideZ"})
    /\ Len(ConstraintGates) = 1
    /\ ConstraintGates[1].st = "gate"

-----------------------------------------------------------------------------
(* C7 *)

NewConstraintCount == Len(module.exprs)

\* C7 as stated: k is the smallest non-negative integer with
\* 2^k >= |constraints| + 8.
C7_SmallestCeilLog ==
    (pc = "constructed" /\ backend = "halo2") =>
        /\ 2 ^ k >= NewConstraintCount + ROW_PADDING
        /\ (k = 0 \/ 2 ^ (k - 1) < NewConstraintCount + ROW_PADDING)

-----------------------------------------------------------------------------
(* C8 *)

\* C8: after populate_variables(inputs) returns, every entry of the witness
\* map holds a known field value.
C8_WitnessKnown ==
    (pc = "ready") =>
        /\ DOMAIN variable_map = collect_module_variables(module)
        /\ \A v \in DOMAIN variable_map : variable_map[v] \in Field

\* Backend A has returned with variable 1 derived from its definition v2 + 1
C8_Witness ==
    /\ pc = "ready" /\ backend = "halo2"
    /\ inputs = [v \in {2} |-> 2]
    /\ module.defs = << <<1, Infix("Add", Variable(2), Constant(1))>> >>
    /\ variable_map[1] = 3 /\ variable_map[2] = 2

-----------------------------------------------------------------------------
(* C9 *)

\* the evaluator applied to both sides under the witness yields equal elements
EvaluatesEqual(e) ==
    LET l == evaluate_expr(backend, e.a, EmptyMap, variable_map, {})
        r == evaluate_expr(backend, e.b, EmptyMap, variable_map, {})
    IN  l.st = "ok" /\ r.st = "ok" /\ l.val = r.val

\* C9 as stated: after populate_variables(inputs), for every constraint
\* lhs = rhs of the module, evaluating lhs and rhs under the populated witness
\* yields equal field elements.
C9_EveryConstraintHolds ==
    (pc = "ready") =>
        \A i \in 1 .. Len(module.exprs) :
            IsEquality(module.exprs[i]) => EvaluatesEqual(module.exprs[i])

\* the constraint is v = rhs, rhs is the module's definition of v, and v is
\* given no input
IsDerivedConstraint(e) ==
    /\ IsEquality(e)
    /\ IsVariable(e.a)
    /\ e.a.id \notin DOMAIN inputs
    /\ e.a.id \in DOMAIN definitions
    /\ definitions[e.a.id] = e.b

\* C9 amended: after populate_variables(inputs) returns, for every constraint
\* v = rhs whose left side is a variable that has no input and whose
\* definition in the module is rhs, evaluating v and rhs under the populated
\* witness yields equal field elements.
C9_DerivedConstraintsHold ==
    (pc = "ready") =>
        \A i \in 1 .. Len(module.exprs) :
            IsDerivedConstraint(module.exprs[i]) => EvaluatesEqual(module.exprs[i])

\* v1 = v2 + 1 with v1 derived from its definition v2 + 1 and v2 derived
\* from its definition 1
C9_Witness ==
    /\ pc = "ready"
    /\ inputs = EmptyMap
    /\ module.exprs = <<Infix("Equal", Variable(1), Infix("Add", Variable(2), Constant(1)))>>
    /\ IsDerivedConstraint(module.exprs[1])
    /\ 2 \in DOMAIN definitions /\ definitions[2] = Constant(1)
    /\ variable_map[1] = 2 /\ variable_map[2] = 1

-----------------------------------------------------------------------------
(* C10 *)

\* C10: canonical(a) is the r in [0, p) congruent to a, negate(a) the r in
\* [0, p) congruent to -a, and make_constant(c) is |c| mod p negated when
\* c < 0, for every signed integer of any magnitude, in both backends.
C10_CanonicalNegate ==
    /\ (pc = "canonical") => result = arg % P
    /\ (pc = "negate") => result = (0 - arg) % P
    /\ (pc = "make_constant") =>
           result = IF arg < 0 THEN FNeg(Abs(arg) % P) ELSE Abs(arg) % P

-----------------------------------------------------------------------------
(* C11 *)

\* a * b^-1 mod p for integers a and b, b not congruent to 0
QuotientModP(a, b) == FMul(a % P, FInvert(b % P))

\* C11: infix `/` returns a*b^-1 mod p when b is not congruent to 0 mod p and
\* panics when it is; `|` returns 0 when b is congruent to 0 mod p and the
\* `/` result otherwise; `=` always panics.
C11_InfixDivision ==
    /\ (pc = "infix" /\ arg.op = "Divide") =>
          (arg.b % P # 0 /\ result = QuotientModP(arg.a, arg.b))
    /\ (pc = "panic" /\ arg.op = "Divide") => arg.b % P = 0
    /\ (pc = "infix" /\ arg.op = "DivideZ") =>
          result = IF arg.b % P = 0 THEN 0 ELSE QuotientModP(arg.a, arg.b)
    /\ (pc = "panic") => arg.op # "DivideZ"
    /\ (pc = "infix") => arg.op # "Equal"

-----------------------------------------------------------------------------
(* C12 *)

\* C12: infix(Exponentiate, base, exp) returns base^exp in the field for every
\* exp >= 0 and (base^|exp|)^-1 for every exp < 0 with base not congruent to
\* 0, in both backends, and panics only for a zero base with a negative
\* exponent.
C12_InfixExponentiate ==
    /\ (pc = "infix" /\ arg.op = "Exponentiate") =>
          result = IF arg.b >= 0 THEN FPow(arg.a % P, arg.b)
                   ELSE FInvert(FPow(arg.a % P, 0 - arg.b))
    /\ (pc = "panic" /\ arg.op = "Exponentiate") =>
          (arg.b < 0 /\ arg.a % P = 0)

-----------------------------------------------------------------------------
(* C13 *)

\* C13: decoding an encoded module gives back the same module, witness map
\* and k, and encoding the decoded module again gives back the blob it was
\* decoded from, for every blob encode produced.
C13_RoundTrips ==
    (arg = "module") =>
        /\ (pc \in {"decoded", "reencoded"}) =>
              decoded = [module |-> module, variable_map |-> variable_map, k |-> k]
        /\ (pc = "reencoded") => blobs[Len(blobs)] = blobs[Len(blobs) - 1]
        /\ pc \notin {"panic", "decode error"}

-----------------------------------------------------------------------------
(* C14 *)

\* C14: encoding the same module twice yields the same blob, whatever the
\* iteration order of the witness hash map.
C14_EncodeDeterministic ==
    (arg = "module" /\ pc = "module") =>
        \A i, j \in 1 .. Len(blobs) : blobs[i] = blobs[j]

-----------------------------------------------------------------------------
(* C15 *)

\* a witness entry whose encoded value stands for a number that is not below
\* the modulus
InvalidRepr(bk, e) ==
    IF bk = "halo2" THEN e[1] = 1 /\ DigitsValue(Tail(e), 2 ^ ByteBits) >= P
    ELSE DigitsValue(e, 2 ^ DigitBits) >= P
HasInvalidRepr(bk, blob) ==
    \E i \in 1 .. Len(blob.entries) : InvalidRepr(bk, blob.entries[i][2])

\* C15: decoding a blob with a witness entry of an invalid representation
\* (a value that is not below the modulus) returns a decode error in both
\* backends: it neither panics nor yields a module.
C15_InvalidReprIsDecodeError ==
    (arg = "file" /\ pc # "blob" /\ HasInvalidRepr(backend, blobs[1])) =>
        pc = "decode error"

-----------------------------------------------------------------------------
(* C16 *)

\* C16: verify exits with status 0 exactly when the proof is valid; when the
\* verifier returns an error the status is not 0 and a diagnostic is printed.
C16_VerifyExitStatus ==
    (cli.cmd = "verify" /\ pc = "exit") =>
        /\ (ExitStatus = 0) <=> (cli.proof = "valid")
        /\ (cli.proof = "invalid" /\ pc = "exit") => cli.output # ""

-----------------------------------------------------------------------------
(* C17 *)

\* the source the claim names for a prove command
ClaimedSource ==
    IF cli.inputs_arg THEN "--inputs"
    ELSE IF cli.default_exists THEN "default file" ELSE "prompt"
\* keygen or proof creation has started
KeygenStarted ==
    \/ cli.stage \in {"vk", "pk", "proved", "written"}
    \/ cli.stage = "inputs" /\ pc \in {"synth", "done"}
    \/ cli.stage = "inputs" /\ pc = "panic" /\ err.kind \in {"unsupported constraint", "division by zero"} /\ idx > 0
\* populate_variables has run on the inputs of the source
Populated ==
    /\ inputs = [v \in InputVariables(module) |->
                    halo2_make_constant(cli.contents[ClaimedSource])]
    /\ todo = {}
    /\ \A v \in DOMAIN variable_map : variable_map[v] # Unknown

C17_StateInvariant ==
    (cli.cmd = "prove") =>
        /\ (cli.stage # "start") =>
              /\ cli.read = {ClaimedSource}
              /\ cli.var_assignments =
                    [v \in InputVariables(module) |-> cli.contents[ClaimedSource]]
        /\ (cli.stage = "start") => cli.read = {}
        /\ KeygenStarted => Populated
        /\ cli.proof_file => cli.stage = "written"

\* C17: prove takes its inputs from the --inputs file when given, otherwise
\* from <circuit>.inputs when that file exists, otherwise from the prompt:
\* exactly one source is read, the witnesses are populated from it before
\* keygen and proof creation, and the proof file is written only after the
\* proof has been created.
C17_ProveInputPrecedence ==
    /\ []C17_StateInvariant
    /\ [][(cli'.proof_file /\ ~cli.proof_file) =>
             (cli.cmd = "prove" /\ cli.stage = "proved" /\ Populated)]_vars

C17_Witness ==
    /\ cli.cmd = "prove"
    /\ ~cli.inputs_arg
    /\ cli.default_exists
    /\ cli.contents["default file"] = 0 - 1
    /\ cli.contents["--inputs"] = 0
    /\ cli.contents["prompt"] = 1
    /\ cli.read = {"default file"}
    /\ cli.stage = "written"
    /\ cli.proof_file
    /\ DOMAIN inputs # {}
    /\ \A v \in DOMAIN inputs : inputs[v] = P - 1

-----------------------------------------------------------------------------
(* C18 *)

\* the equality constraints the loop of gadget has got past
ConstraintsDone == {i \in 1 .. Len(module.exprs) : i < idx /\ IsEquality(module.exprs[i])}

\* C18: Backend B's gadget emits exactly one public-input gate per entry of
\* pubs, in the order of pubs and before every constraint gate; the gate of
\* pubs[i] has the wires (pubs[i], zero, zero), q_l = -1, q_r = 0 and as public
\* input the witness of pubs[i], so that its equation holds exactly when the
\* wire equals the public input.
C18_PublicInputGates ==
    (backend = "plonk" /\ pc \in {"synth", "done", "panic"}) =>
        /\ Len(gates) = Len(module.pubs) + Cardinality(ConstraintsDone)
        /\ \A i \in 1 .. Len(module.pubs) :
              /\ gates[i].a = module.pubs[i]
              /\ gates[i].b = ZeroWire
              /\ gates[i].c = ZeroWire
              /\ gates[i].q_l = FNeg(1)
              /\ gates[i].q_r = 0
              /\ gates[i].pi = variable_map[module.pubs[i]]
              /\ \A x \in Field :
                    GatePoly([gates[i] EXCEPT !.va = x]) = 0 <=> x = gates[i].pi
              /\ GatePoly(gates[i]) = 0
        /\ \A j \in (Len(module.pubs) + 1) .. Len(gates) : gates[j].pi = 0

\* two different public variables with different witnesses, and a constraint
\* gate after their gates
C18_Witness ==
    /\ backend = "plonk"
    /\ pc = "done"
    /\ module.pubs = <<2, 1>>
    /\ variable_map[1] = 1
    /\ variable_map[2] = 2
    /\ Len(gates) = 3
    /\ gates[1].pi = 2
    /\ gates[2].pi = 1
    /\ gates[3].q_m # 0

-----------------------------------------------------------------------------
(* C19 *)

\* the value the public-input vector of the call holds at a position
PiAt(pos) == IF pos \in DOMAIN arg.pi THEN arg.pi[pos] ELSE 0
\* the public variables that have a position: zip pairs no more of them than
\* there are positions
Paired ==
    {i \in 1 .. Len(module.pubs) : i <= Len(arg.positions)}
\* the last pairing of a variable
IsLastPairing(i) == \A j \in Paired : module.pubs[j] = module.pubs[i] => j <= i

\* C19 as stated: every public variable pubs[i] has the entry
\* pubs[i] -> (pubs[i], value of pi at positions[i]).
C19_EveryPublicVariable ==
    (pc = "annotated") =>
        \A i \in 1 .. Len(module.pubs) :
            /\ module.pubs[i] \in DOMAIN result
            /\ i <= Len(arg.positions)
            /\ result[module.pubs[i]] =
                  [var |-> module.pubs[i], val |-> PiAt(arg.positions[i])]

\* C19 (amended): the result has an entry exactly for the public variables
\* that have a position, and the entry of pubs[i] is (pubs[i], value of pi at
\* positions[i], zero where pi holds none) for the last i a variable is paired
\* at; with as many positions as public variables and no variable listed
\* twice this is the entry of every public variable.
C19_PairedPublicVariables ==
    (pc = "annotated") =>
        /\ DOMAIN result = {module.pubs[i] : i \in Paired}
        /\ \A i \in Paired :
              IsLastPairing(i) =>
                  result[module.pubs[i]] =
                      [var |-> module.pubs[i], val |-> PiAt(arg.positions[i])]

\* two public variables paired with positions out of order
C19_Witness ==
    /\ pc = "annotated"
    /\ module.pubs = <<1, 2>>
    /\ arg.positions = <<2, 0>>
    /\ DOMAIN arg.pi = {0, 2}
    /\ arg.pi[2] = 1
    /\ arg.pi[0] = 2
    /\ result[1] = [var |-> 1, val |-> 1]
    /\ result[2] = [var |-> 2, val |-> 2]

-----------------------------------------------------------------------------
(* C20 *)

Columns == {"a", "b", "c"}
WireOf(g, column) == IF column = "a" THEN g.a ELSE IF column = "b" THEN g.b ELSE g.c
\* the cells of the constraint rows in which the variable was placed
CellsOf(v) ==
    {Cell(i, column) : i \in 2 .. Len(gates), column \in Columns}
        \cap {cl \in (1 .. Len(gates)) \X Columns : WireOf(gates[cl[1]], cl[2]) = v}
\* placement order: by row, and within a row a, then b, then c
PlacedBefore(c1, c2) ==
    \/ c1[1] < c2[1]
    \/ c1[1] = c2[1] /\ c1[2] = "a" /\ c2[2] # "a"
    \/ c1[1] = c2[1] /\ c1[2] = "b" /\ c2[2] = "c"
FirstCellOf(v) ==
    CHOOSE c1 \in CellsOf(v) : \A c2 \in CellsOf(v) : c1 = c2 \/ PlacedBefore(c1, c2)

\* C20: in Backend A, during and after the synthesis of any constraint list,
\* the VariableId -> Cell map holds, for exactly the variables placed so far,
\* the first cell the variable was placed in (never a later one), and every
\* other cell of the variable is joined to that first cell by a copy
\* constraint, also when the variable occupies two wires of one gate.
C20_VariableIdentity ==
    (backend = "halo2" /\ pc \in {"synth", "done", "panic"}) =>
        /\ DOMAIN cells = {v \in VariableIds : CellsOf(v) # {}}
        /\ \A v \in DOMAIN cells :
              /\ cells[v] = FirstCellOf(v)
              /\ \A cl \in CellsOf(v) : cl = cells[v] \/ <<cl, cells[v]>> \in copies

\* variable 2 fills the three wires of the first constraint row and a wire
\* of the second: its entry is the a cell of the first constraint row
C20_Witness ==
    /\ backend = "halo2" /\ pc = "done"
    /\ Len(gates) = 3
    /\ gates[2].a = 2 /\ gates[2].b = 2 /\ gates[2].c = 2
    /\ Cardinality(CellsOf(2)) = 4
    /\ cells[2] = Cell(2, "a")
    /\ <<Cell(2, "b"), Cell(2, "a")>> \in copies
    /\ \E column \in Columns : <<Cell(3, column), Cell(2, "a")>> \in copies

-----------------------------------------------------------------------------
(* C21 *)

\* the cells of the rows after the first whose wire is unused
UnusedCells ==
    {cl \in (2 .. Len(gates)) \X Columns : WireOf(gates[cl[1]], cl[2]) = ZeroWire}

\* C21: Backend A's synthesize creates the zero cell once, before every
\* constraint gate, as wire b of a row with selectors (q_l, q_r, q_o, q_m,
\* q_c) = (0, 1, 0, 0, 0), whose equation holds exactly when that cell is 0;
\* every unused wire of every later gate is copied to that cell, and each
\* later gate adds exactly three bindings or copies, one per wire.
C21_ZeroCell ==
    (backend = "halo2" /\ pc \in {"synth", "done", "panic"}) =>
        /\ Len(gates) >= 1
        /\ cell0 = Cell(1, "b")
        /\ <<gates[1].q_l, gates[1].q_r, gates[1].q_o, gates[1].q_m, gates[1].q_c>>
              = <<0, 1, 0, 0, 0>>
        /\ \A x \in Field : GatePoly([gates[1] EXCEPT !.vb = x]) = 0 <=> x = 0
        /\ gates[1].vb = 0
        /\ \A cl \in UnusedCells : <<cl, cell0>> \in copies
        /\ \A cp \in copies :
              /\ cp[1][1] \in 2 .. Len(gates)
              /\ (cp[2] = cell0) <=> (cp[1] \in UnusedCells)
        /\ \A v \in DOMAIN cells : cells[v] # cell0
        /\ Cardinality(copies) + Cardinality(DOMAIN cells) = 3 * (Len(gates) - 1)

\* a gate with two unused wires after a gate without any
C21_Witness ==
    /\ backend = "halo2"
    /\ pc = "done"
    /\ Len(gates) = 3
    /\ gates[2].a # ZeroWire /\ gates[2].b # ZeroWire /\ gates[2].c # ZeroWire
    /\ gates[3].b = ZeroWire
    /\ gates[3].c = ZeroWire
    /\ <<Cell(3, "b"), cell0>> \in copies
    /\ <<Cell(3, "c"), cell0>> \in copies
    /\ Cardinality(copies) + Cardinality(DOMAIN cells) = 6

-----------------------------------------------------------------------------
(* C22 *)

\* the elements of a sequence, and a sequence without a repeated element
Range(s) == {s[i] : i \in 1 .. Len(s)}
NoRepeat(s) == \A i, j \in 1 .. Len(s) : s[i] = s[j] => i = j

\* evaluating Variable(v) in the current state of populate_variables
EvalVariable(v) == evaluate_expr(backend, Variable(v), definitions, field_assigns, {})
DefsEvaluated(v) ==
    evaluated_definitions(backend, Variable(v), definitions, field_assigns, {})

C22_StateInvariant ==
    (pc \in {"populate", "ready"}) =>
        \* a variable assigns holds is returned as it is, no definition evaluated
        /\ \A v \in DOMAIN field_assigns :
              /\ EvalVariable(v) = EvalOk(field_assigns[v], field_assigns)
              /\ DefsEvaluated(v) = <<>>
        \* any other variable has its definition evaluated, once, together
        \* with the definitions it needs, none of them held by assigns, and
        \* all of them are stored; the entries already present stay
        /\ \A v \in VariableIds \ DOMAIN field_assigns :
              EvalVariable(v).st = "ok" =>
                  /\ Head(DefsEvaluated(v)) = v
                  /\ NoRepeat(DefsEvaluated(v))
                  /\ Range(DefsEvaluated(v)) \cap DOMAIN field_assigns = {}
                  /\ DOMAIN EvalVariable(v).assigns =
                        DOMAIN field_assigns \cup Range(DefsEvaluated(v))
                  /\ EvalVariable(v).assigns[v] = EvalVariable(v).val
                  /\ \A x \in DOMAIN field_assigns :
                        EvalVariable(v).assigns[x] = field_assigns[x]
        \* an input takes precedence over a definition
        /\ \A v \in DOMAIN inputs :
              /\ field_assigns[v] = inputs[v]
              /\ (v \in DOMAIN variable_map /\ v \notin todo) => variable_map[v] = inputs[v]
        \* a variable already visited is held by assigns
        /\ \A v \in DOMAIN variable_map \ todo :
              v \in DOMAIN field_assigns /\ field_assigns[v] = variable_map[v]

\* C22: evaluating Variable(v) returns assigns[v] without evaluating defs[v]
\* when assigns holds v, and otherwise evaluates defs[v] and stores the result
\* in assigns[v]; within one run of populate_variables each definition is
\* evaluated at most once, an entry of assigns never changes once present, and
\* an input for v takes precedence over the definition of v.
C22_Memoization ==
    /\ []C22_StateInvariant
    /\ [][(pc = "populate" /\ pc' \in {"populate", "ready"}) =>
             \A v \in DOMAIN field_assigns :
                 v \in DOMAIN field_assigns' /\ field_assigns'[v] = field_assigns[v]]_vars

\* v1 := v2 * v2 and v2 := 1 with an input for v1 are populated: v1 keeps
\* its input, and v2 is evaluated from its definition and stored
C22_Witness ==
    /\ pc = "ready"
    /\ 1 \in DOMAIN definitions
    /\ definitions[1] = Infix("Multiply", Variable(2), Variable(2))
    /\ 2 \in DOMAIN definitions
    /\ definitions[2] = Constant(1)
    /\ DOMAIN inputs = {1}
    /\ inputs[1] = 2
    /\ variable_map[1] = 2
    /\ variable_map[2] = 1
    /\ field_assigns[2] = 1

\* v1 := v2 * v2 and v2 := 1 without inputs, v1 visited first: the
\* definition of v2 is evaluated once for the two operands
C22_WitnessOnce ==
    /\ pc = "populate"
    /\ todo = DOMAIN variable_map
    /\ 1 \in DOMAIN definitions
    /\ definitions[1] = Infix("Multiply", Variable(2), Variable(2))
    /\ 2 \in DOMAIN definitions
    /\ definitions[2] = Constant(1)
    /\ field_assigns = EmptyMap
    /\ DefsEvaluated(1) = <<1, 2>>

-----------------------------------------------------------------------------
(* C23 *)

\* the variables without a value whose definition is an Infix of the operator
DefinedBy(op) ==
    {v \in DOMAIN definitions \ DOMAIN field_assigns : IsInfix(definitions[v], op)}
\* the operands of the definition of v, the left one evaluated first
LeftFirst(v) ==
    LET x == evaluate_expr(backend, definitions[v].a, definitions, field_assigns, {v})
    IN  [a |-> x,
         b |-> evaluate_expr(backend, definitions[v].b, definitions,
                             IF x.st = "ok" THEN x.assigns ELSE field_assigns, {v})]
\* the operands of the definition of v, the right one evaluated first
RightFirst(v) ==
    LET y == evaluate_expr(backend, definitions[v].b, definitions, field_assigns, {v})
    IN  [b |-> y,
         a |-> evaluate_expr(backend, definitions[v].a, definitions,
                             IF y.st = "ok" THEN y.assigns ELSE field_assigns, {v})]
\* q is a * b^-1: the element that multiplied by b gives a
IsQuotient(q, a, b) == q \in Field /\ FMul(q, b) = a

\* C23: in both backends evaluating Infix(/, a, b) is fatal exactly when b
\* evaluates to 0 and yields a * b^-1 otherwise; in Backend B evaluating
\* Infix(|, a, b) yields 0 when b evaluates to 0 and a * b^-1 otherwise, and
\* does not fail on a zero denominator; in Backend A evaluating Infix(|, a, b)
\* is the fatal unexpected-expression error.
C23_EvaluatorDivision ==
    (pc \in {"populate", "panic", "ready"}) =>
        /\ \A v \in DefinedBy("Divide") :
              (LeftFirst(v).a.st = "ok" /\ LeftFirst(v).b.st = "ok") =>
                  IF LeftFirst(v).b.val = 0
                  THEN EvalVariable(v).st = "division by zero"
                  ELSE /\ EvalVariable(v).st = "ok"
                       /\ IsQuotient(EvalVariable(v).val, LeftFirst(v).a.val,
                                     LeftFirst(v).b.val)
        /\ \A v \in DefinedBy("DivideZ") :
              IF backend = "halo2"
              THEN EvalVariable(v).st = "unexpected expression"
              ELSE /\ EvalVariable(v).st # "division by zero"
                   /\ RightFirst(v).b.st = "ok" =>
                        IF RightFirst(v).b.val = 0
                        THEN EvalVariable(v).st = "ok" /\ EvalVariable(v).val = 0
                        ELSE RightFirst(v).a.st = "ok" =>
                                /\ EvalVariable(v).st = "ok"
                                /\ IsQuotient(EvalVariable(v).val, RightFirst(v).a.val,
                                              RightFirst(v).b.val)
        /\ (pc = "panic" /\ err.kind \in {"division by zero", "unexpected expression"}) =>
              EvalVariable(err.expr.id).st = err.kind

\* v1 := 1 / v2 with the input v2 = 0: populate_variables has panicked
C23_Witness ==
    /\ pc = "panic"
    /\ err.kind = "division by zero"
    /\ err.expr = Variable(1)
    /\ definitions[1] = Infix("Divide", Constant(1), Variable(2))
    /\ DOMAIN field_assigns = {2}
    /\ field_assigns[2] = 0

\* Backend B, v1 := 1 | v2 with the input v2 = 0: v1 is populated with 0
C23_WitnessSafe ==
    /\ backend = "plonk"
    /\ pc = "ready"
    /\ DOMAIN definitions = {1}
    /\ definitions[1] = Infix("DivideZ", Constant(1), Variable(2))
    /\ DOMAIN inputs = {2}
    /\ inputs[2] = 0
    /\ variable_map[1] = 0

-----------------------------------------------------------------------------
(* C24 *)

\* base^c in the field for an integer exponent c, base not 0 when c < 0
FieldPower(base, c) ==
    IF c >= 0 THEN FPow(base, c) ELSE FInvert(FPow(base, 0 - c))

\* C24: evaluating Infix(^, base, exp) inside a definition yields the field
\* power and is not rejected as an unexpected expression; with y := x ^ (-3)
\* and x := 2, populate_variables yields y = (2^3)^-1.
C24_ExponentiationEvaluated ==
    (pc \in {"populate", "panic", "ready"}) =>
        /\ \A v \in DefinedBy("Exponentiate") :
              (/\ LeftFirst(v).a.st = "ok"
               /\ IsConstant(definitions[v].b)
               /\ (LeftFirst(v).a.val # 0 \/ definitions[v].b.c >= 0)) =>
                  /\ EvalVariable(v).st = "ok"
                  /\ EvalVariable(v).val =
                        FieldPower(LeftFirst(v).a.val, definitions[v].b.c)
        /\ (pc = "panic" /\ err.kind = "unexpected expression") =>
              DefinedBy("Exponentiate") = {}

-----------------------------------------------------------------------------
(* C25 *)

\* the variables mentioned anywhere in the module
MentionedVariables ==
    UNION {ExprVariables(module.exprs[i]) : i \in 1 .. Len(module.exprs)}
    \cup UNION {ExprVariables(module.defs[i][2]) : i \in 1 .. Len(module.defs)}
    \cup {module.defs[i][1] : i \in 1 .. Len(module.defs)}
    \cup {module.pubs[i] : i \in 1 .. Len(module.pubs)}

\* the key set and the module are kept, and the values change only in
\* populate_variables and without_witnesses
KeySetKept ==
    /\ [](pc # "start" => DOMAIN variable_map = MentionedVariables)
    /\ [][module' = module]_vars
    /\ [][(pc # "start") => DOMAIN variable_map' = DOMAIN variable_map]_vars
    /\ [][(pc # "start" /\ variable_map' # variable_map) =>
             \/ pc = "populate" /\ pc' = "populate"
             \/ pc' = "constructed" /\ variable_map' = without_witnesses(variable_map)]_vars

\* C25 as stated: the key set of the witness map is the set of variables
\* collected from the module at construction, every value being unknown
\* then; populate_variables, without_witnesses, synthesis and an
\* encode/decode round trip leave the key set and the module unchanged, and
\* the values change only in populate_variables and without_witnesses.
C25_InitiallyUnknown ==
    /\ KeySetKept
    /\ [][(pc = "start") =>
             \A v \in DOMAIN variable_map' : variable_map'[v] = Unknown]_vars

\* C25 (amended): as stated, except that at construction every value is
\* unknown in Backend A and the known field element 0 in Backend B.
C25_KeySetInvariant ==
    /\ KeySetKept
    /\ [][(pc = "start" /\ backend = "halo2") =>
             \A v \in DOMAIN variable_map' : variable_map'[v] = Unknown]_vars
    /\ [][(pc = "start" /\ backend = "plonk") =>
             \A v \in DOMAIN variable_map' : variable_map'[v] = 0]_vars

\* a module has been populated (v2 an input, v1 from its definition), written
\* and read back, and then stripped of its witnesses
C25_Witness ==
    /\ backend = "halo2"
    /\ pc = "constructed"
    /\ blobs # <<>>
    /\ decoded # NoDecode
    /\ decoded.variable_map = [v \in {1, 2} |-> IF v = 1 THEN 2 ELSE 1]
    /\ DOMAIN inputs = {2}
    /\ todo = {}
    /\ DOMAIN field_assigns = {1, 2}
    /\ DOMAIN variable_map = {1, 2}
    /\ variable_map[1] = Unknown
    /\ variable_map[2] = Unknown

-----------------------------------------------------------------------------
(* C26 *)

\* C26: populate_variables detects a cyclic definition map (a variable
\* without an input whose definition depends on itself, directly or
\* transitively) and fails with an error of its own: the evaluator does not
\* recurse until the call stack is exhausted.
C26_CycleDetected == (pc = "panic") => err.kind # "stack overflow"

-----------------------------------------------------------------------------
(* C27 *)

\* lhs = e2 / c3 with lhs and e2 leaves and c3 a constant that is 0 in the
\* field
DividesByZeroConstantStrictly(e) ==
    /\ IsEquality(e)
    /\ IsLeaf(e.a)
    /\ IsInfix(e.b, "Divide")
    /\ IsLeaf(e.b.a)
    /\ IsConstant(e.b.b)
    /\ make_constant(backend, e.b.b.c) = 0

\* C27: a strict division by a constant that is 0 in the field is fatal in
\* the emitter for every shape with a constant denominator (v1 = c2 / c3,
\* v1 = v2 / c3, c1 = c2 / c3, c1 = v2 / c3) in both backends, and no gate is
\* emitted for the constraint.
C27_ConstantZeroDivisionFatal ==
    (OneConstraintProcessed /\ DividesByZeroConstantStrictly(module.exprs[1])) =>
        /\ pc = "panic"
        /\ err.kind = "division by zero"
        /\ ConstraintGates = <<>>

\* the shapes for which the claim holds: a variable on the left in either
\* backend, and c1 = c2 / c3 in Backend B
C27_FatalShapes ==
    (/\ OneConstraintProcessed
     /\ DividesByZeroConstantStrictly(module.exprs[1])
     /\ \/ IsVariable(module.exprs[1].a)
        \/ backend = "plonk" /\ IsConstant(module.exprs[1].b.a)) =>
        /\ pc = "panic"
        /\ err.kind = "division by zero"
        /\ ConstraintGates = <<>>

-----------------------------------------------------------------------------
(* C28 *)

\* a leaf on the left; on the right a leaf, a negated leaf, + - x of two
\* leaves, or a leaf divided by a constant that is not 0 in the field
IsEquivalenceShape(e) ==
    /\ IsEquality(e)
    /\ IsLeaf(e.a)
    /\ \/ IsLeaf(e.b)
       \/ IsNegate(e.b) /\ IsLeaf(e.b.e)
       \/ HasOp(e.b, {"Add", "Subtract", "Multiply"}) /\ IsLeaf(e.b.a) /\ IsLeaf(e.b.b)
       \/ /\ HasOp(e.b, {"Divide"})
          /\ IsLeaf(e.b.a)
          /\ IsConstant(e.b.b)
          /\ e.b.b.c % P # 0

\* C28: for every constraint shape, in both backends, whose right side is a
\* leaf, a negated leaf, + - x of two leaves or a division by a constant that
\* is not 0 in the field, the emitted gate equation (unused wires 0) holds
\* for an assignment of field values to the variables exactly when lhs = rhs
\* holds in the field.
C28_GateEquivalentToConstraint ==
    (OneGateEmitted /\ IsEquivalenceShape(module.exprs[1])) =>
        (GatePoly(ConstraintGates[1]) = 0
            <=> ConstraintHolds(module.exprs[1], variable_map))

-----------------------------------------------------------------------------
(* C29 *)

\* the value of v that depends on the definitions and the inputs alone:
\* Variable(v) evaluated from the inputs
ValueFromInputs(v) == evaluate_expr(backend, Variable(v), definitions, inputs, {})

\* the witness map is the same whatever the order of the visits
OrderIndependent ==
    \A v \in DOMAIN variable_map :
        ValueFromInputs(v).st = "ok" /\ variable_map[v] = ValueFromInputs(v).val

\* the value of v is the value of its definition under the witness map
EqualsItsDefinition(v) ==
    FieldValue(definitions[v], variable_map) # Unknown =>
        variable_map[v] = FieldValue(definitions[v], variable_map)

\* C29 as stated: after populate_variables the witness map is the same for
\* every order of the visits, and the value of every defined variable is its
\* definition evaluated under the final witness map.
C29_EveryDefinedVariable ==
    (pc = "ready") =>
        /\ OrderIndependent
        /\ \A v \in DOMAIN definitions \cap DOMAIN variable_map : EqualsItsDefinition(v)

\* C29 (amended): after populate_variables the witness map is the same for
\* every order of the visits, the value of every variable with an input is
\* that input, and the value of every defined variable without an input is
\* its definition evaluated under the final witness map.
C29_OrderIndependence ==
    (pc = "ready") =>
        /\ OrderIndependent
        /\ \A v \in DOMAIN inputs \cap DOMAIN variable_map : variable_map[v] = inputs[v]
        /\ \A v \in (DOMAIN definitions \cap DOMAIN variable_map) \ DOMAIN inputs :
              EqualsItsDefinition(v)

\* v1 := v2 - 1 and v2 := 1 without inputs, populated in either order
C29_Witness ==
    /\ pc = "ready"
    /\ inputs = EmptyMap
    /\ DOMAIN definitions = {1, 2}
    /\ definitions[1] = Infix("Subtract", Variable(2), Constant(1))
    /\ definitions[2] = Constant(1)
    /\ variable_map[1] = 0
    /\ variable_map[2] = 1
    /\ EqualsItsDefinition(1)

-----------------------------------------------------------------------------
(* C30 *)

\* the fixed columns of a row and the variables its wires are routed to
FixedColumns(g) == <<g.a, g.b, g.c, g.q_l, g.q_r, g.q_o, g.q_m, g.q_c>>

\* the rows of the entries before idx, synthesized without witnesses
UnpopulatedRows ==
    Preamble("halo2", without_witnesses(variable_map), module)
        \o GatesFor("halo2", without_witnesses(variable_map),
                    SubSeq(module.exprs, 1, idx - 1))

\* the bindings and copy constraints of the rows from row i on
RECURSIVE CopiesFrom(_, _, _)
CopiesFrom(rows, i, st) ==
    IF i > Len(rows) THEN st
    ELSE CopiesFrom(rows, i + 1, make_gate_copies(st.cells, st.copies, i, rows[i]))

UnpopulatedCopies == CopiesFrom(UnpopulatedRows, 2, [cells |-> EmptyMap, copies |-> {}])

\* C30: in Backend A the selectors of every row, the routing of the wires
\* to variables and the copy constraints that synthesize produces, and the
\* outcome of the entry it is about to match, are those of the same module
\* synthesized without witnesses, whatever the witness map holds.
C30_StructureWitnessIndependent ==
    (backend = "halo2" /\ pc \in {"synth", "done"}) =>
        /\ Len(gates) = Len(UnpopulatedRows)
        /\ \A i \in 1 .. Len(gates) :
              FixedColumns(gates[i]) = FixedColumns(UnpopulatedRows[i])
        /\ cells = UnpopulatedCopies.cells
        /\ copies = UnpopulatedCopies.copies
        /\ (pc = "synth" /\ idx <= Len(module.exprs) /\ IsEquality(module.exprs[idx])) =>
              CurrentMatch.st =
                  synthesize_match("halo2", without_witnesses(variable_map),
                                   module.exprs[idx].a, module.exprs[idx].b).st

\* v1 = v2 + 1 synthesized after populate_variables gave v2 = 2 and v1 = 3
C30_Witness ==
    /\ backend = "halo2"
    /\ pc = "done"
    /\ module.exprs = <<Infix("Equal", Variable(1), Infix("Add", Variable(2), Constant(1)))>>
    /\ DOMAIN inputs = {2}
    /\ variable_map[1] = 3
    /\ variable_map[2] = 2
    /\ Len(gates) = 2
    /\ gates[2].va # UnpopulatedRows[2].va
    /\ copies # {}
    /\ DOMAIN cells = {1, 2}

====
